---- MODULE Spec2Model ----
(***************************************************************************)
(* A model of the policy runtime of the Foundation repository:             *)
(*   - the condition evaluator (conditions.ts: evaluateCondition,          *)
(*     resolveValue, compareValues),                                       *)
(*   - the policy engine (PolicyEngine: evaluate, getEffectivePermissions, *)
(*     addPolicy, addRole),                                                *)
(*   - the rate limiter (RateLimiter: check, consume, reset, cleanup),     *)
(*   - the fd tool's SpecLinker.link and SpecValidator.validate.           *)
(* JavaScript strings are TLA+ strings; the string methods the code uses   *)
(* (trim, includes, split, startsWith, slice, replace) are operators that  *)
(* work character by character.  JavaScript values are records with a type *)
(* tag, see the section "Values".                                          *)
(***************************************************************************)
EXTENDS Integers, Sequences, FiniteSets, TLC

VARIABLES
    \* ---- condition evaluator (one call of evaluateCondition)
    cExpr,        \* the expression string handed to evaluateCondition
    cCtx,         \* the ConditionContext handed to evaluateCondition
    cResult,      \* "none" before the call, then the call's outcome
    cForm,        \* history: how the input expression was put together
    \* ---- policy engine
    policies,     \* PolicyEngine.policies, the registered rules in list order
    roles,        \* PolicyEngine.roles, role name -> RoleDefinition
    eCtx,         \* the PolicyContext of the last evaluate call
    eResult,      \* the PolicyResult of the last evaluate call
    eCalled,      \* history: evaluate has been called
    cfg,          \* the caller's config.policies: given or not, the array as it
                  \* was handed to the constructor (orig) and as it is now (array)
    registered,   \* history: the policies in the order they were registered
    \* ---- one call of getEffectivePermissions, step by step
    pReq,         \* roleNames, the requested role list
    pIdx,         \* index of the next element of roleNames (line 188)
    pStack,       \* the call stack of processRole
    pVisited,     \* the visited set of the call (line 187)
    pPerms,       \* the permissions Set, in insertion order (line 162)
    pProcessed,   \* history: the roles that passed the visited check, in order
    pPc,          \* "run" | "done"
    \* ---- rate limiter
    rlConfig,     \* RateLimiter.config
    store,        \* RateLimiter.store, key -> entry or NoEntry
    now,          \* Date.now()
    rResult,      \* the result of the last check / consume call
    winEnd,       \* history: per key, the reset time of the window opened last
    winCalls,     \* history: per key, the consume calls made in that window
    uncleaned,    \* history: the store as it is when cleanup() is never called
    \* ---- callers of consume, scheduled on the event loop
    callerPc,     \* caller -> "idle" | "pending" | "checked" | "returned"
    callerKey,    \* caller -> key of its consume call
    callerRes,    \* caller -> result of its consume call
    granted,      \* history: <<key, resetAt>> -> number of allowed results
    \* ---- the fd tool: SpecLinker.link and SpecValidator.validate
    fSpec,        \* the Spec handed to link / validate
    fClock,       \* the time new Date() returns
    lResult,      \* the LinkResult of the last link call, or that it threw
    lHashes,      \* history: the _meta.hash values returned for this spec content
    vOptions,     \* the options handed to validate
    vSchema,      \* the errors the schema validation finds in fSpec
    vResult       \* the ValidationResult of the last validate call

condVars   == <<cExpr, cCtx, cResult, cForm>>
engineVars == <<policies, roles, eCtx, eResult, eCalled, cfg, registered>>
permVars   == <<pReq, pIdx, pStack, pVisited, pPerms, pProcessed, pPc>>
rateVars   == <<rlConfig, store, now, rResult, winEnd, winCalls, uncleaned>>
concVars   == <<callerPc, callerKey, callerRes, granted>>
fdVars     == <<fSpec, fClock, lResult, lHashes, vOptions, vSchema, vResult>>
vars == <<condVars, engineVars, permVars, rateVars, concVars, fdVars>>

(***************************************************************************)
(* Strings: the String.prototype methods used by conditions.ts.            *)
(***************************************************************************)

StartsWith(s, p) == Len(s) >= Len(p) /\ SubSeq(s, 1, Len(p)) = p

EndsWith(s, p) == Len(s) >= Len(p) /\ SubSeq(s, Len(s) - Len(p) + 1, Len(s)) = p

\* s.indexOf(sub), 1-based; 0 when sub does not occur
IndexOf(s, sub) ==
    LET occ == {i \in 1..(Len(s) - Len(sub) + 1) : SubSeq(s, i, i + Len(sub) - 1) = sub}
    IN IF occ = {} THEN 0 ELSE CHOOSE i \in occ : \A j \in occ : i <= j

Includes(s, sub) == IndexOf(s, sub) > 0

\* s.split(sep) for a non-empty separator: non-overlapping, left to right
RECURSIVE Split(_, _)
Split(s, sep) ==
    LET i == IndexOf(s, sep)
    IN IF i = 0 THEN <<s>>
       ELSE <<SubSeq(s, 1, i - 1)>> \o Split(SubSeq(s, i + Len(sep), Len(s)), sep)

IsSpace(c) == c \in {" ", "\t", "\n", "\r"}

\* the lower-case letter of each upper-case letter
LowerCase ==
    [A |-> "a", B |-> "b", C |-> "c", D |-> "d", E |-> "e", F |-> "f",
     G |-> "g", H |-> "h", I |-> "i", J |-> "j", K |-> "k", L |-> "l",
     M |-> "m", N |-> "n", O |-> "o", P |-> "p", Q |-> "q", R |-> "r",
     S |-> "s", T |-> "t", U |-> "u", V |-> "v", W |-> "w", X |-> "x",
     Y |-> "y", Z |-> "z"]

LowerChar(c) == IF c \in DOMAIN LowerCase THEN LowerCase[c] ELSE c

\* s.toLowerCase()
RECURSIVE toLowerCase(_)
toLowerCase(s) ==
    IF Len(s) = 0 THEN "" ELSE LowerChar(SubSeq(s, 1, 1)) \o toLowerCase(SubSeq(s, 2, Len(s)))

RECURSIVE TrimStart(_)
TrimStart(s) ==
    IF Len(s) > 0 /\ IsSpace(SubSeq(s, 1, 1)) THEN TrimStart(SubSeq(s, 2, Len(s))) ELSE s

RECURSIVE TrimEnd(_)
TrimEnd(s) ==
    IF Len(s) > 0 /\ IsSpace(SubSeq(s, Len(s), Len(s)))
    THEN TrimEnd(SubSeq(s, 1, Len(s) - 1)) ELSE s

Trim(s) == TrimEnd(TrimStart(s))

\* s.replace(sub, ''): the first occurrence only
RemoveFirst(s, sub) ==
    LET i == IndexOf(s, sub)
    IN IF i = 0 THEN s ELSE SubSeq(s, 1, i - 1) \o SubSeq(s, i + Len(sub), Len(s))

\* s.slice(1, -1)
SliceInner(s) == IF Len(s) < 2 THEN "" ELSE SubSeq(s, 2, Len(s) - 1)

IsQuote(c) == c \in {"'", "\""}

\* a list parser that keeps the quotes of its items
StripQuotesNone(s) == s

\* s.replace(/^['"]|['"]$/g, '')
StripQuotes(s) ==
    LET lead  == Len(s) >= 1 /\ IsQuote(SubSeq(s, 1, 1))
        trail == Len(s) >= 2 /\ IsQuote(SubSeq(s, Len(s), Len(s)))
        from  == IF lead THEN 2 ELSE 1
        to    == IF trail THEN Len(s) - 1 ELSE Len(s)
    IN IF from > to THEN "" ELSE SubSeq(s, from, to)

DigitChars == <<"0", "1", "2", "3", "4", "5", "6", "7", "8", "9">>

IsDigit(c) == \E i \in 1..10 : DigitChars[i] = c

DigitVal(c) == (CHOOSE i \in 1..10 : DigitChars[i] = c) - 1

AllDigits(s) == Len(s) >= 1 /\ \A i \in 1..Len(s) : IsDigit(SubSeq(s, i, i))

\* /^-?\d+(\.\d+)?$/.test(s)
IsNumberLiteral(s) ==
    LET u   == IF StartsWith(s, "-") THEN SubSeq(s, 2, Len(s)) ELSE s
        dot == IndexOf(u, ".")
    IN IF dot = 0 THEN AllDigits(u)
       ELSE AllDigits(SubSeq(u, 1, dot - 1)) /\ AllDigits(SubSeq(u, dot + 1, Len(u)))

RECURSIVE DigitsToInt(_)
DigitsToInt(s) ==
    IF Len(s) = 0 THEN 0
    ELSE 10 * DigitsToInt(SubSeq(s, 1, Len(s) - 1)) + DigitVal(SubSeq(s, Len(s), Len(s)))

RECURSIVE IntToDigits(_)
IntToDigits(n) ==
    IF n < 10 THEN DigitChars[n + 1] ELSE IntToDigits(n \div 10) \o DigitChars[(n % 10) + 1]

RECURSIVE Pow10(_)
Pow10(k) == IF k = 0 THEN 1 ELSE 10 * Pow10(k - 1)

\* items.join(sep) for a list of strings
RECURSIVE JoinWith(_, _)
JoinWith(items, sep) ==
    IF Len(items) = 0 THEN ""
    ELSE IF Len(items) = 1 THEN items[1]
    ELSE items[1] \o sep \o JoinWith(Tail(items), sep)

\* the concatenation of a list of lists
RECURSIVE ConcatAll(_)
ConcatAll(lists) == IF Len(lists) = 0 THEN <<>> ELSE Head(lists) \o ConcatAll(Tail(lists))

(***************************************************************************)
(* Values: a JavaScript value is a record                                  *)
(*   t  type tag: "undefined" "null" "boolean" "number" "string" "symbol"  *)
(*      "function" "array" "object"                                        *)
(*   s  the characters of a string; the identity of an array, object,      *)
(*      function or symbol (=== compares those by reference)               *)
(*   n, d  a number n / 10^d without trailing fraction zeros; a boolean    *)
(*      is n = 1 or n = 0                                                  *)
(*   e  the elements of an array                                           *)
(*   f  the own properties of an object, key -> value                      *)
(***************************************************************************)

VUndefined == [t |-> "undefined", s |-> "", n |-> 0, d |-> 0, e |-> <<>>, f |-> <<>>]
VNull      == [t |-> "null", s |-> "", n |-> 0, d |-> 0, e |-> <<>>, f |-> <<>>]
VBool(b)   == [t |-> "boolean", s |-> "", n |-> IF b THEN 1 ELSE 0, d |-> 0, e |-> <<>>, f |-> <<>>]
VStr(str)  == [t |-> "string", s |-> str, n |-> 0, d |-> 0, e |-> <<>>, f |-> <<>>]
VSym(id)   == [t |-> "symbol", s |-> id, n |-> 0, d |-> 0, e |-> <<>>, f |-> <<>>]
VFn(id)    == [t |-> "function", s |-> id, n |-> 0, d |-> 0, e |-> <<>>, f |-> <<>>]
VArr(id, items)  == [t |-> "array", s |-> id, n |-> 0, d |-> 0, e |-> items, f |-> <<>>]
VObj(id, fields) == [t |-> "object", s |-> id, n |-> 0, d |-> 0, e |-> <<>>, f |-> fields]

RECURSIVE VNum(_, _)
VNum(m, dec) ==
    IF dec > 0 /\ m % 10 = 0 THEN VNum(m \div 10, dec - 1)
    ELSE [t |-> "number", s |-> "", n |-> m, d |-> dec, e |-> <<>>, f |-> <<>>]

\* parseFloat(s) for s matching the number-literal pattern
ParseFloat(s) ==
    LET neg  == StartsWith(s, "-")
        u    == IF neg THEN SubSeq(s, 2, Len(s)) ELSE s
        dot  == IndexOf(u, ".")
        ip   == IF dot = 0 THEN u ELSE SubSeq(u, 1, dot - 1)
        fp   == IF dot = 0 THEN "" ELSE SubSeq(u, dot + 1, Len(u))
        m    == DigitsToInt(ip \o fp)
    IN VNum(IF neg THEN 0 - m ELSE m, Len(fp))

\* the properties every non-null value inherits from its prototype chain
ProtoKeys == {"constructor", "toString", "valueOf", "hasOwnProperty"}

\* value[key] for a value that is neither null nor undefined (line 139)
GetProp(v, key) ==
    CASE v.t = "object" ->
            IF key \in DOMAIN v.f THEN v.f[key]
            ELSE IF key \in ProtoKeys THEN VFn(key) ELSE VUndefined
      [] v.t = "array" ->
            IF key = "length" THEN VNum(Len(v.e), 0)
            ELSE IF AllDigits(key) /\ IntToDigits(DigitsToInt(key)) = key
                    /\ DigitsToInt(key) < Len(v.e)
                 THEN v.e[DigitsToInt(key) + 1]
            ELSE IF key \in ProtoKeys \cup {"includes"} THEN VFn(key) ELSE VUndefined
      [] v.t = "string" ->
            IF key = "length" THEN VNum(Len(v.s), 0)
            ELSE IF AllDigits(key) /\ IntToDigits(DigitsToInt(key)) = key
                    /\ DigitsToInt(key) < Len(v.s)
                 THEN VStr(SubSeq(v.s, DigitsToInt(key) + 1, DigitsToInt(key) + 1))
            ELSE IF key \in ProtoKeys \cup {"includes"} THEN VFn(key) ELSE VUndefined
      [] OTHER ->
            IF key \in ProtoKeys THEN VFn(key) ELSE VUndefined

\* left === right
StrictEquals(a, b) ==
    /\ a.t = b.t
    /\ CASE a.t \in {"undefined", "null"} -> TRUE
         [] a.t = "boolean" -> a.n = b.n
         [] a.t = "number" -> a.n = b.n /\ a.d = b.d
         [] OTHER -> a.s = b.s

\* Boolean(value)
ToBoolean(v) ==
    CASE v.t \in {"undefined", "null"} -> FALSE
      [] v.t = "boolean" -> v.n = 1
      [] v.t = "number" -> v.n /= 0
      [] v.t = "string" -> v.s /= ""
      [] OTHER -> TRUE

\* Number(value): [ok |-> FALSE] is a TypeError, nan is NaN, else n / 10^d.
\* A string converts when, trimmed, it is empty or a plain decimal literal.
NumNaN == [ok |-> TRUE, nan |-> TRUE, n |-> 0, d |-> 0]
NumOf(m, dec) == [ok |-> TRUE, nan |-> FALSE, n |-> m, d |-> dec]
NumOfValue(v) == NumOf(v.n, v.d)
TrimmedToNumber(u) ==
    IF u = "" THEN NumOf(0, 0)
    ELSE IF IsNumberLiteral(u) THEN NumOfValue(ParseFloat(u))
    ELSE NumNaN
StringToNumber(str) == TrimmedToNumber(Trim(str))

\* String(number)
NumberToString(v) ==
    LET a    == IF v.n < 0 THEN 0 - v.n ELSE v.n
        ip   == IntToDigits(a \div Pow10(v.d))
        fr   == IntToDigits(a % Pow10(v.d))
        pad  == [i \in 1..(v.d - Len(fr)) |-> "0"]
        RECURSIVE Cat(_)
        Cat(q) == IF Len(q) = 0 THEN "" ELSE Head(q) \o Cat(Tail(q))
    IN (IF v.n < 0 THEN "-" ELSE "")
       \o ip \o (IF v.d = 0 THEN "" ELSE "." \o Cat(pad) \o fr)

\* String(value) of a primitive
PrimToString(v) ==
    CASE v.t = "undefined" -> "undefined"
      [] v.t = "null" -> "null"
      [] v.t = "boolean" -> IF v.n = 1 THEN "true" ELSE "false"
      [] v.t = "number" -> NumberToString(v)
      [] v.t = "string" -> v.s
      [] v.t = "symbol" -> "Symbol(" \o v.s \o ")"
      [] v.t = "function" -> "function " \o v.s \o "() { [native code] }"
      [] OTHER -> "[object Object]"

\* Array.prototype.join(','): null and undefined elements print as ''
RECURSIVE JoinComma(_)
JoinComma(items) ==
    IF Len(items) = 0 THEN ""
    ELSE (IF Head(items).t \in {"undefined", "null"} THEN "" ELSE PrimToString(Head(items)))
         \o (IF Len(items) = 1 THEN "" ELSE "," \o JoinComma(Tail(items)))

\* String(value)
StringOf(v) == IF v.t = "array" THEN JoinComma(v.e) ELSE PrimToString(v)

\* a conversion that reads undefined as 0, as it reads null
ToNumberNullish(v) ==
    CASE v.t \in {"undefined", "null"} -> NumOf(0, 0)
      [] v.t \in {"boolean", "number"} -> NumOf(v.n, v.d)
      [] v.t = "string" -> StringToNumber(v.s)
      [] v.t = "symbol" -> [ok |-> FALSE, nan |-> FALSE, n |-> 0, d |-> 0]
      [] v.t = "array" -> StringToNumber(JoinComma(v.e))
      [] OTHER -> NumNaN

ToNumber(v) ==
    CASE v.t = "undefined" -> NumNaN
      [] v.t = "null" -> NumOf(0, 0)
      [] v.t \in {"boolean", "number"} -> NumOf(v.n, v.d)
      [] v.t = "string" -> StringToNumber(v.s)
      [] v.t = "symbol" -> [ok |-> FALSE, nan |-> FALSE, n |-> 0, d |-> 0]
      [] v.t = "array" -> StringToNumber(JoinComma(v.e))
      [] OTHER -> NumNaN

NumLess(a, b) == a.n * Pow10(b.d) < b.n * Pow10(a.d)

(***************************************************************************)
(* conditions.ts.  An evaluation ends in one of three outcomes: "true",    *)
(* "false", or "throw" (an exception leaves the function).                 *)
(***************************************************************************)

OfBool(b) == IF b THEN "true" ELSE "false"

\* Number(left) <op> Number(right), lines 152-158: a TypeError of Number()
\* leaves compareValues, a comparison with NaN is false
CompareNumbers(l, r, op) ==
    IF ~l.ok \/ ~r.ok THEN "throw"
    ELSE IF l.nan \/ r.nan THEN "false"
    ELSE OfBool(CASE op = "<"  -> NumLess(l, r)
                  [] op = ">"  -> NumLess(r, l)
                  [] op = "<=" -> ~NumLess(r, l)
                  [] OTHER     -> ~NumLess(l, r))

compareValues(left, right, op) ==
    CASE op = "="  -> OfBool(StrictEquals(left, right))
      [] op = "!=" -> OfBool(~StrictEquals(left, right))
      [] op \in {"<", ">", "<=", ">="} -> CompareNumbers(ToNumber(left), ToNumber(right), op)
      [] OTHER -> "false"

\* the property-path loop of resolveValue (lines 137-142)
RECURSIVE WalkPath(_, _)
WalkPath(value, parts) ==
    IF Len(parts) = 0 THEN value
    ELSE IF value.t \in {"null", "undefined"} THEN VUndefined
    ELSE WalkPath(GetProp(value, Head(parts)), Tail(parts))

\* resolveValue after const trimmed = expr.trim() (lines 110-143)
ResolveTrimmed(trimmed, ctx) ==
    IF \/ StartsWith(trimmed, "'") /\ EndsWith(trimmed, "'")
       \/ StartsWith(trimmed, "\"") /\ EndsWith(trimmed, "\"")
    THEN VStr(SliceInner(trimmed))
    ELSE IF IsNumberLiteral(trimmed) THEN ParseFloat(trimmed)
    ELSE IF trimmed = "true" THEN VBool(TRUE)
    ELSE IF trimmed = "false" THEN VBool(FALSE)
    ELSE IF trimmed = "null" THEN VNull
    ELSE IF StartsWith(trimmed, "(") /\ EndsWith(trimmed, ")") THEN VStr(trimmed)
    ELSE WalkPath(ctx, Split(trimmed, "."))

resolveValue(expr, ctx) == ResolveTrimmed(Trim(expr), ctx)

\* the comparison operators in the order the loop tries them (line 88)
operators == <<"!=", "<=", ">=", "=", "<", ">">>

\* an evaluateCondition without the try/catch
CatchNothing(outcome) == outcome

\* the try/catch of evaluateCondition (lines 33, 101-104)
Catch(outcome) == IF outcome = "throw" THEN "false" ELSE outcome

\* the IN branch (lines 66-85)
\* .map(s => s.trim().replace(/^['"]|['"]$/g, '')), line 80
StripEach(raw) == [i \in 1..Len(raw) |-> StripQuotes(Trim(raw[i]))]

\* items.includes(String(leftValue)), line 81
ItemsInclude(items, text) == \E i \in 1..Len(items) : items[i] = text

\* lines 71-84, on the two resolved operands
InValues(leftValue, rightValue) ==
    IF rightValue.t = "array"
    THEN OfBool(\E i \in 1..Len(rightValue.e) : StrictEquals(rightValue.e[i], leftValue))
    ELSE IF rightValue.t = "string" /\ StartsWith(rightValue.s, "(")
    THEN OfBool(ItemsInclude(StripEach(Split(SliceInner(rightValue.s), ",")),
                             StringOf(leftValue)))
    ELSE "false"

InParts(parts, ctx) ==
    InValues(resolveValue(Trim(parts[1]), ctx), resolveValue(Trim(parts[2]), ctx))

EvalIn(expr, ctx) == InParts(Split(expr, " IN "), ctx)

\* the comparison loop (lines 88-96); "none" when no operator occurs
\* the first operator of the list that occurs in expr between spaces, "" if none
FirstOperator(expr) ==
    LET hits == {i \in 1..Len(operators) : Includes(expr, " " \o operators[i] \o " ")}
    IN IF hits = {} THEN "" ELSE operators[CHOOSE i \in hits : \A j \in hits : i <= j]

\* lines 90-94 on the two sides of the operator
CompareParts(parts, op, ctx) ==
    compareValues(resolveValue(Trim(parts[1]), ctx), resolveValue(Trim(parts[2]), ctx), op)

CompareWith(expr, op, ctx) ==
    IF op = "" THEN "none" ELSE CompareParts(Split(expr, " " \o op \o " "), op, ctx)

EvalComparison(expr, ctx) == CompareWith(expr, FirstOperator(expr), ctx)

\* lines 98-100: reached when no comparison operator occurred
OrFallback(outcome, expr, ctx) ==
    IF outcome /= "none" THEN outcome ELSE OfBool(ToBoolean(resolveValue(expr, ctx)))

RECURSIVE evaluateCondition(_, _)

\* parts.every(...) and parts.some(...), lines 40 and 45
EveryPart(parts, ctx) == \A i \in 1..Len(parts) : evaluateCondition(Trim(parts[i]), ctx) = "true"
SomePart(parts, ctx)  == \E i \in 1..Len(parts) : evaluateCondition(Trim(parts[i]), ctx) = "true"

\* a parser that splits at OR before it splits at AND
TryBlockOrFirst(expr, ctx) ==
    IF Includes(expr, " OR ") THEN OfBool(SomePart(Split(expr, " OR "), ctx))
    ELSE IF Includes(expr, " AND ") THEN OfBool(EveryPart(Split(expr, " AND "), ctx))
    ELSE IF StartsWith(expr, "NOT ")
         THEN OfBool(evaluateCondition(Trim(SubSeq(expr, 5, Len(expr))), ctx) /= "true")
    ELSE IF Includes(expr, " IS NOT NULL")
         THEN OfBool(resolveValue(Trim(RemoveFirst(expr, " IS NOT NULL")), ctx).t
                        \notin {"null", "undefined"})
    ELSE IF Includes(expr, " IS NULL")
         THEN OfBool(resolveValue(Trim(RemoveFirst(expr, " IS NULL")), ctx).t
                        \in {"null", "undefined"})
    ELSE IF Includes(expr, " IN ") THEN EvalIn(expr, ctx)
    ELSE OrFallback(EvalComparison(expr, ctx), expr, ctx)

\* the body of the try block (lines 34-100), expr = expression.trim()
TryBlock(expr, ctx) ==
    IF Includes(expr, " AND ") THEN OfBool(EveryPart(Split(expr, " AND "), ctx))
    ELSE IF Includes(expr, " OR ") THEN OfBool(SomePart(Split(expr, " OR "), ctx))
    ELSE IF StartsWith(expr, "NOT ")
         THEN OfBool(evaluateCondition(Trim(SubSeq(expr, 5, Len(expr))), ctx) /= "true")
    ELSE IF Includes(expr, " IS NOT NULL")
         THEN OfBool(resolveValue(Trim(RemoveFirst(expr, " IS NOT NULL")), ctx).t
                        \notin {"null", "undefined"})
    ELSE IF Includes(expr, " IS NULL")
         THEN OfBool(resolveValue(Trim(RemoveFirst(expr, " IS NULL")), ctx).t
                        \in {"null", "undefined"})
    ELSE IF Includes(expr, " IN ") THEN EvalIn(expr, ctx)
    ELSE OrFallback(EvalComparison(expr, ctx), expr, ctx)

evaluateCondition(expression, ctx) == Catch(TryBlock(Trim(expression), ctx))

(***************************************************************************)
(* PolicyEngine (policy engine source, part_006).  Optional fields of the  *)
(* TypeScript interfaces hold a value: VUndefined when the field is        *)
(* absent.  A role's inherits / permissions / can lists are sequences, the *)
(* empty sequence standing for an absent list (the code reads `x || []`).  *)
(***************************************************************************)

\* the ConditionContext literal of evaluate (lines 88-96)
ConditionContext(userId, tenantId, roleList, resourceData, requestData) ==
    VObj("ctx", [user |-> VObj("ctx.user",
                               [id |-> userId, tenant_id |-> tenantId,
                                roles |-> VArr("ctx.user.roles",
                                               [i \in 1..Len(roleList) |-> VStr(roleList[i])])]),
                 resource |-> resourceData,
                 request  |-> requestData])

PolicyRule(name, resource, action, effect, conditions, filter, priority) ==
    [name |-> name, resource |-> resource, action |-> action, effect |-> effect,
     conditions |-> conditions, filter |-> filter, priority |-> priority]

Condition(type, expression, message) ==
    [type |-> type, expression |-> expression, message |-> message]

RoleDefinition(name, inherits, permissions, can) ==
    [name |-> name, inherits |-> inherits, permissions |-> permissions, can |-> can]

PolicyContext(userId, tenantId, roleList, resource, action, resourceData, requestData) ==
    [userId |-> userId, tenantId |-> tenantId, roles |-> roleList, resource |-> resource,
     action |-> action, resourceData |-> resourceData, requestData |-> requestData]

PolicyResult(allowed, reason, filters) ==
    [allowed |-> allowed, reason |-> reason, filters |-> filters]

\* b.priority || 0
PriorityOf(p) == IF ToBoolean(p.priority) THEN p.priority.n ELSE 0

\* a sort that puts an element before the elements of its priority
RECURSIVE SortByPriorityUnstable(_)
SortByPriorityUnstable(list) ==
    IF Len(list) <= 1 THEN list
    ELSE LET front == SortByPriorityUnstable(SubSeq(list, 1, Len(list) - 1))
             last  == list[Len(list)]
             keep  == {k \in 0..Len(front) :
                         \A j \in 1..k : PriorityOf(front[j]) > PriorityOf(last)}
             at    == CHOOSE k \in keep : \A j \in keep : j <= k
         IN SubSeq(front, 1, at) \o <<last>> \o SubSeq(front, at + 1, Len(front))

\* Array.prototype.sort with (a, b) => (b.priority || 0) - (a.priority || 0):
\* descending, stable (ECMAScript 2019)
RECURSIVE SortByPriority(_)
SortByPriority(list) ==
    IF Len(list) <= 1 THEN list
    ELSE LET front == SortByPriority(SubSeq(list, 1, Len(list) - 1))
             last  == list[Len(list)]
             keep  == {k \in 0..Len(front) :
                         \A j \in 1..k : PriorityOf(front[j]) >= PriorityOf(last)}
             at    == CHOOSE k \in keep : \A j \in keep : j <= k
         IN SubSeq(front, 1, at) \o <<last>> \o SubSeq(front, at + 1, Len(front))

\* a bypass that forgets super_admin
AdminBypassAdminOnly(ctx) == \E i \in 1..Len(ctx.roles) : ctx.roles[i] = "admin"

\* ctx.roles.includes('admin') || ctx.roles.includes('super_admin')
AdminBypass(ctx) ==
    \E i \in 1..Len(ctx.roles) : ctx.roles[i] = "admin" \/ ctx.roles[i] = "super_admin"

\* a processRole without the visited check
AlreadyVisitedNever(roleName, visited) == FALSE

\* if (visited.has(roleName)) return;
AlreadyVisited(roleName, visited) == roleName \in visited

\* Set.add for each element of a list, keeping insertion order
RECURSIVE AddAll(_, _)
AddAll(perms, list) ==
    IF Len(list) = 0 THEN perms
    ELSE AddAll(IF \E i \in 1..Len(perms) : perms[i] = Head(list)
                THEN perms ELSE Append(perms, Head(list)),
                Tail(list))

\* processRole and its loop over role.inherits; st = [visited, permissions]
RECURSIVE processRole(_, _, _)
RECURSIVE ProcessParents(_, _, _)
processRole(roleMap, roleName, st) ==
    IF AlreadyVisited(roleName, st.visited) THEN st
    ELSE LET seen == [st EXCEPT !.visited = @ \cup {roleName}]
         IN IF roleName \notin DOMAIN roleMap THEN seen
            ELSE LET role == roleMap[roleName]
                 IN ProcessParents(roleMap, role.inherits,
                        [seen EXCEPT !.permissions = AddAll(AddAll(@, role.permissions), role.can)])

ProcessParents(roleMap, parents, st) ==
    IF Len(parents) = 0 THEN st
    ELSE ProcessParents(roleMap, Tail(parents), processRole(roleMap, Head(parents), st))

getEffectivePermissions(roleMap, roleNames) ==
    ProcessParents(roleMap, roleNames, [visited |-> {}, permissions |-> <<>>]).permissions

\* a permission check that passes as soon as the roles grant anything
checkRolePermissionsAny(roleMap, ctx) == Len(getEffectivePermissions(roleMap, ctx.roles)) > 0

\* effectivePermissions.includes(action) || effectivePermissions.includes('*')
PermissionsInclude(effectivePermissions, action) ==
    \E i \in 1..Len(effectivePermissions) :
        effectivePermissions[i] = action \/ effectivePermissions[i] = "*"

checkRolePermissions(roleMap, ctx) ==
    PermissionsInclude(getEffectivePermissions(roleMap, ctx.roles), ctx.action.s)

\* the RBAC gate: ctx.action && !this.checkRolePermissions(ctx)
RbacDenies(roleMap, ctx) == ToBoolean(ctx.action) /\ ~checkRolePermissions(roleMap, ctx)

\* the filter predicate of applicablePolicies
IsApplicable(p, ctx) ==
    /\ p.resource = "*" \/ StrictEquals(VStr(p.resource), ctx.resource)
    /\ ~ToBoolean(p.action) \/ StrictEquals(p.action, VStr("*"))
                            \/ StrictEquals(p.action, ctx.action)

RECURSIVE SelectApplicable(_, _)
SelectApplicable(list, ctx) ==
    IF Len(list) = 0 THEN <<>>
    ELSE (IF IsApplicable(Head(list), ctx) THEN <<Head(list)>> ELSE <<>>)
         \o SelectApplicable(Tail(list), ctx)

\* ctx.resourceData || {}
DataOrEmpty(data, id) == IF ToBoolean(data) THEN data ELSE VObj(id, <<>>)

conditionCtx(ctx) ==
    ConditionContext(ctx.userId, ctx.tenantId, ctx.roles,
                     DataOrEmpty(ctx.resourceData, "ctx.resource"),
                     DataOrEmpty(ctx.requestData, "ctx.request"))

\* condition.message || fallback
MessageOr(condition, fallback) ==
    IF ToBoolean(condition.message) THEN condition.message.s ELSE fallback

\* one pass of the switch on condition.type (lines 102-124)
ApplyCondition(policy, condition, result, st) ==
    CASE condition.type = "deny_if" /\ result ->
            [st EXCEPT !.explicitDeny = TRUE,
                       !.denyReason = MessageOr(condition, policy.name),
                       !.conditionsPassed = FALSE]
      [] condition.type = "allow_if" /\ ~result ->
            [st EXCEPT !.conditionsPassed = FALSE]
      [] condition.type = "require" /\ ~result ->
            [st EXCEPT !.explicitDeny = TRUE,
                       !.denyReason = MessageOr(condition, "Requirement not met: " \o policy.name),
                       !.conditionsPassed = FALSE]
      [] OTHER -> st

\* the loop over policy.conditions (lines 101-127), from condition i on
RECURSIVE ConditionLoop(_, _, _, _)

\* lines 126-127: if (explicitDeny) break, else the next condition
AfterCondition(policy, i, ctx, next) ==
    IF next.explicitDeny THEN next ELSE ConditionLoop(policy, i + 1, ctx, next)

\* lines 98-99 and the switch: one condition evaluated and applied
CheckCondition(policy, condition, ctx, st) ==
    ApplyCondition(policy, condition,
                   evaluateCondition(condition.expression, conditionCtx(ctx)) = "true", st)

ConditionLoop(policy, i, ctx, st) ==
    IF i > Len(policy.conditions) THEN st
    ELSE AfterCondition(policy, i, ctx, CheckCondition(policy, policy.conditions[i], ctx, st))

\* an effect that collects the filter of an allow policy that did not pass
ApplyEffectFilterAlways(policy, st) ==
    IF ~st.conditionsPassed
    THEN [st EXCEPT !.filters = IF policy.effect = "allow" /\ ToBoolean(policy.filter)
                                 THEN Append(@, policy.filter.s) ELSE @]
    ELSE IF policy.effect = "allow"
         THEN [st EXCEPT !.explicitAllow = TRUE,
                         !.filters = IF ToBoolean(policy.filter)
                                     THEN Append(@, policy.filter.s) ELSE @]
    ELSE IF policy.effect = "deny"
         THEN [st EXCEPT !.explicitDeny = TRUE, !.denyReason = policy.name]
    ELSE st

\* lines 131-141: the effect of a policy whose conditions passed
ApplyEffect(policy, st) ==
    IF ~st.conditionsPassed THEN st
    ELSE IF policy.effect = "allow"
         THEN [st EXCEPT !.explicitAllow = TRUE,
                         !.filters = IF ToBoolean(policy.filter)
                                     THEN Append(@, policy.filter.s) ELSE @]
    ELSE IF policy.effect = "deny"
         THEN [st EXCEPT !.explicitDeny = TRUE, !.denyReason = policy.name]
    ELSE st

\* the loop over applicablePolicies (lines 87-142), from policy i on
RECURSIVE PolicyLoop(_, _, _, _)

\* lines 129-141: if (explicitDeny) break, else the effect and the next policy
AfterConditions(applicable, i, ctx, checked) ==
    IF checked.explicitDeny THEN checked
    ELSE PolicyLoop(applicable, i + 1, ctx, ApplyEffect(applicable[i], checked))

PolicyLoop(applicable, i, ctx, st) ==
    IF i > Len(applicable) THEN st
    ELSE AfterConditions(applicable, i, ctx,
                         ConditionLoop(applicable[i], 1, ctx,
                                       [st EXCEPT !.conditionsPassed = TRUE]))

\* a resolution in which a recorded allow is looked at before a recorded deny
ResolveAllowFirst(st, applicableCount) ==
    IF st.explicitAllow \/ applicableCount = 0
    THEN PolicyResult(TRUE, VUndefined,
                      VArr("filters", [i \in 1..Len(st.filters) |-> VStr(st.filters[i])]))
    ELSE IF st.explicitDeny
    THEN PolicyResult(FALSE, VStr(st.denyReason), VUndefined)
    ELSE PolicyResult(FALSE, VStr("No matching allow policy"), VUndefined)

\* a resolution that denies when no policy is applicable
ResolveDefaultDeny(st, applicableCount) ==
    IF st.explicitDeny
    THEN PolicyResult(FALSE, VStr(st.denyReason), VUndefined)
    ELSE IF st.explicitAllow
    THEN PolicyResult(TRUE, VUndefined,
                      VArr("filters", [i \in 1..Len(st.filters) |-> VStr(st.filters[i])]))
    ELSE PolicyResult(FALSE, VStr("No matching allow policy"), VUndefined)

\* a resolution that permits when nothing was recorded
ResolveDefaultPermit(st, applicableCount) ==
    IF st.explicitDeny
    THEN PolicyResult(FALSE, VStr(st.denyReason), VUndefined)
    ELSE PolicyResult(TRUE, VUndefined,
                      VArr("filters", [i \in 1..Len(st.filters) |-> VStr(st.filters[i])]))

\* lines 144-152
Resolve(st, applicableCount) ==
    IF st.explicitDeny
    THEN PolicyResult(FALSE, VStr(st.denyReason), VUndefined)
    ELSE IF st.explicitAllow \/ applicableCount = 0
    THEN PolicyResult(TRUE, VUndefined,
                      VArr("filters", [i \in 1..Len(st.filters) |-> VStr(st.filters[i])]))
    ELSE PolicyResult(FALSE, VStr("No matching allow policy"), VUndefined)

evaluate(policyList, roleMap, ctx) ==
    IF AdminBypass(ctx) THEN PolicyResult(TRUE, VStr("Admin role"), VUndefined)
    ELSE IF RbacDenies(roleMap, ctx)
    THEN PolicyResult(FALSE, VStr("No role permission for action: " \o ctx.action.s), VUndefined)
    ELSE LET applicablePolicies == SelectApplicable(policyList, ctx)
         IN Resolve(PolicyLoop(applicablePolicies, 1, ctx,
                               [filters |-> <<>>, explicitAllow |-> FALSE,
                                explicitDeny |-> FALSE, denyReason |-> "",
                                conditionsPassed |-> TRUE]),
                    Len(applicablePolicies))

(***************************************************************************)
(* RateLimiter (rate-limit.ts).  The store maps the keys that have an      *)
(* entry to [count, resetAt]; times are milliseconds.                      *)
(***************************************************************************)

windowMs == 60000

RateLimitResult(allowed, remaining, resetAt, retryAfter) ==
    [allowed |-> allowed, remaining |-> remaining, resetAt |-> resetAt,
     retryAfter |-> retryAfter]

\* this.config.requestsPerMinute + (this.config.burst || 0)
maxRequests(config) ==
    config.requestsPerMinute + (IF ToBoolean(config.burst) THEN config.burst.n ELSE 0)

\* Math.ceil(ms / 1000)
CeilSeconds(ms) == 0 - ((0 - ms) \div 1000)

\* a window test that lets the entry expire at its reset time already
EntryExpiredAtReset(st, key, t) == key \notin DOMAIN st \/ t >= st[key].resetAt

\* !entry || now > entry.resetAt
EntryExpired(st, key, t) == key \notin DOMAIN st \/ t > st[key].resetAt

check(st, config, t, key) ==
    LET entry == IF EntryExpired(st, key, t)
                 THEN [count |-> 0, resetAt |-> t + windowMs] ELSE st[key]
        remaining == IF maxRequests(config) - entry.count > 0
                     THEN maxRequests(config) - entry.count ELSE 0
    IN IF entry.count >= maxRequests(config)
       THEN RateLimitResult(FALSE, 0, entry.resetAt, VNum(CeilSeconds(entry.resetAt - t), 0))
       ELSE RateLimitResult(TRUE, remaining - 1, entry.resetAt, VUndefined)

\* Map.set(key, entry)
MapSet(st, key, entry) == [k \in DOMAIN st \cup {key} |-> IF k = key THEN entry ELSE st[k]]

\* Map.delete(key)
MapDelete(st, key) == [k \in DOMAIN st \ {key} |-> st[k]]

\* lines 65-79 of consume: the store after a call whose check returned result;
\* t is the second reading of Date.now() (line 66)
Consumed(st, result, t, key) ==
    IF ~result.allowed THEN st
    ELSE IF EntryExpired(st, key, t)
         THEN MapSet(st, key, [count |-> 1, resetAt |-> t + windowMs])
         ELSE MapSet(st, key, [st[key] EXCEPT !.count = @ + 1])

\* a cleanup() that also deletes the entries that reach their reset time
CleanedUpAtReset(st, t) == [k \in {x \in DOMAIN st : ~(t >= st[x].resetAt)} |-> st[k]]

\* the store after cleanup()
CleanedUp(st, t) == [k \in {x \in DOMAIN st : ~(t > st[x].resetAt)} |-> st[k]]

getKey(scope, identifiers) ==
    CASE scope = "user" ->
            "rate:user:" \o (IF ToBoolean(identifiers.userId) THEN identifiers.userId.s
                             ELSE "anonymous")
      [] scope = "tenant" ->
            "rate:tenant:" \o (IF ToBoolean(identifiers.tenantId) THEN identifiers.tenantId.s
                               ELSE "default")
      [] scope = "ip" ->
            "rate:ip:" \o (IF ToBoolean(identifiers.ip) THEN identifiers.ip.s ELSE "unknown")
      [] scope = "global" -> "rate:global"
      [] OTHER ->
            "rate:" \o (IF ToBoolean(identifiers.userId) THEN identifiers.userId.s
                        ELSE IF ToBoolean(identifiers.ip) THEN identifiers.ip.s
                        ELSE "unknown")

(***************************************************************************)
(* SpecLinker (spec-linker.ts).  A Record<string, T> of the Spec is the    *)
(* sequence of its entries in insertion order, each entry a record that    *)
(* holds its key in the field name.  An optional string that is absent is  *)
(* "", an optional boolean is "true", "false" or "" (absent), an optional  *)
(* object is a sequence of length 0 or 1, and an optional list or map that *)
(* is absent is the empty one.  A LinkError is modelled without its        *)
(* message text.                                                           *)
(***************************************************************************)

OwnEntry(map, key) == \E i \in 1..Len(map) : map[i].name = key

EntryOf(map, key) == map[CHOOSE i \in 1..Len(map) : map[i].name = key]

\* whether map[key] is truthy for a map of objects, and whether key in map:
\* an own entry, or a property every object inherits from Object.prototype
Defined(map, key) == OwnEntry(map, key) \/ key \in ProtoKeys

LinkError(type, source, target) == [type |-> type, source |-> source, target |-> target]

LinkWarning(type, path) == [type |-> type, path |-> path]

MissingReference(source, target) == <<LinkError("missing_reference", source, target)>>

\* field.reference.field || 'id'
TargetField(reference) == IF reference.field /= "" THEN reference.field ELSE "id"

\* lines 63-83 for one field that has a reference
ReferenceErrors(spec, source, reference) ==
    IF ~Defined(spec.entities, reference.entity)
    THEN MissingReference(source, "entities." \o reference.entity)
    ELSE IF ~OwnEntry(spec.entities, reference.entity) THEN <<>>
    ELSE IF ~Defined(EntryOf(spec.entities, reference.entity).fields, TargetField(reference))
    THEN MissingReference(source, "entities." \o reference.entity \o ".fields."
                                    \o TargetField(reference))
    ELSE <<>>

FieldErrors(spec, entityName, field) ==
    IF Len(field.reference) = 0 THEN <<>>
    ELSE ReferenceErrors(spec, "entities." \o entityName \o ".fields." \o field.name,
                         field.reference[1])

\* lines 88-106 for one relation
RelationErrors(spec, entityName, relName, relation) ==
    (IF ~Defined(spec.entities, relation.target)
     THEN MissingReference("entities." \o entityName \o ".relations." \o relName,
                           "entities." \o relation.target)
     ELSE <<>>)
    \o (IF relation.through /= "" /\ ~Defined(spec.entities, relation.through)
        THEN MissingReference("entities." \o entityName \o ".relations." \o relName,
                              "entities." \o relation.through)
        ELSE <<>>)

EntityErrors(spec, entity) ==
    ConcatAll([i \in 1..Len(entity.fields) |-> FieldErrors(spec, entity.name, entity.fields[i])])
    \o ConcatAll([i \in 1..Len(entity.relations) |->
                    RelationErrors(spec, entity.name, entity.relations[i].name,
                                   entity.relations[i])])

validateEntityReferences(spec) ==
    ConcatAll([i \in 1..Len(spec.entities) |-> EntityErrors(spec, spec.entities[i])])

\* line 74 reads targetEntity.fields[targetField]: when spec.entities[name] is an
\* inherited property (a function), targetEntity.fields is undefined and the
\* read throws a TypeError that link does not catch
ReferenceThrows(spec, entity) ==
    \E i \in 1..Len(entity.fields) :
        /\ Len(entity.fields[i].reference) = 1
        /\ ~OwnEntry(spec.entities, entity.fields[i].reference[1].entity)
        /\ entity.fields[i].reference[1].entity \in ProtoKeys

LinkThrows(spec) == \E i \in 1..Len(spec.entities) : ReferenceThrows(spec, spec.entities[i])

\* lines 112-146 for one action
ActionErrors(spec, action) ==
    (IF action.entity /= "" /\ ~Defined(spec.entities, action.entity)
     THEN MissingReference("actions." \o action.name, "entities." \o action.entity)
     ELSE <<>>)
    \o (IF action.triggers_job /= "" /\ ~Defined(spec.jobs.jobs, action.triggers_job)
        THEN MissingReference("actions." \o action.name, "jobs." \o action.triggers_job)
        ELSE <<>>)
    \o ConcatAll([i \in 1..Len(action.roles) |->
                    IF ~Defined(spec.policies.roles, action.roles[i])
                    THEN MissingReference("actions." \o action.name,
                                          "policies.roles." \o action.roles[i])
                    ELSE <<>>])

validateActionReferences(spec) ==
    ConcatAll([i \in 1..Len(spec.actions) |-> ActionErrors(spec, spec.actions[i])])

\* lines 164-182 for one transition
TransitionErrors(spec, flow, source, transition) ==
    (IF ~Defined(flow.steps, transition.target)
     THEN MissingReference(source, "flows." \o flow.name \o ".steps." \o transition.target)
     ELSE <<>>)
    \o (IF transition.action /= "" /\ ~Defined(spec.actions, transition.action)
        THEN MissingReference(source, "actions." \o transition.action)
        ELSE <<>>)

\* lines 151-194 for one step
StepErrors(spec, flow, source, step) ==
    (IF ~Defined(spec.ui.screens, step.screen)
     THEN MissingReference(source, "ui.screens." \o step.screen)
     ELSE <<>>)
    \o ConcatAll([i \in 1..Len(step.transitions) |->
                    TransitionErrors(spec, flow,
                                     source \o ".transitions." \o step.transitions[i].name,
                                     step.transitions[i])])
    \o (IF step.on_enter /= "" /\ ~Defined(spec.actions, step.on_enter)
        THEN MissingReference(source \o ".on_enter", "actions." \o step.on_enter)
        ELSE <<>>)

FlowErrors(spec, flow) ==
    ConcatAll([i \in 1..Len(flow.steps) |->
                 StepErrors(spec, flow, "flows." \o flow.name \o ".steps." \o flow.steps[i].name,
                            flow.steps[i])])
    \o (IF flow.initial_step /= "" /\ ~Defined(flow.steps, flow.initial_step)
        THEN MissingReference("flows." \o flow.name,
                              "flows." \o flow.name \o ".steps." \o flow.initial_step)
        ELSE <<>>)

validateFlowReferences(spec) ==
    ConcatAll([i \in 1..Len(spec.flows) |-> FlowErrors(spec, spec.flows[i])])

\* lines 213-240 for one role
RoleErrors(spec, role) ==
    ConcatAll([i \in 1..Len(role.inherits) |->
                 IF ~Defined(spec.policies.roles, role.inherits[i])
                 THEN MissingReference("policies.roles." \o role.name,
                                       "policies.roles." \o role.inherits[i])
                 ELSE <<>>])
    \o ConcatAll([i \in 1..Len(role.can) |->
                    IF ~Defined(spec.actions, role.can[i])
                    THEN MissingReference("policies.roles." \o role.name,
                                          "actions." \o role.can[i])
                    ELSE <<>>])

\* lines 244-255 for one policy
PolicyErrors(spec, policy) ==
    IF ~Defined(spec.entities, policy.resource)
    THEN MissingReference("policies.policies." \o policy.name, "entities." \o policy.resource)
    ELSE <<>>

\* lines 258-283: the keys of ai_rules.entities and of ai_rules.actions
AiRuleErrors(spec, section, map, names) ==
    ConcatAll([i \in 1..Len(names) |->
                 IF ~Defined(map, names[i].name)
                 THEN MissingReference("policies.ai_rules." \o section \o "." \o names[i].name,
                                       section \o "." \o names[i].name)
                 ELSE <<>>])

validatePolicyReferences(spec) ==
    ConcatAll([i \in 1..Len(spec.policies.roles) |-> RoleErrors(spec, spec.policies.roles[i])])
    \o ConcatAll([i \in 1..Len(spec.policies.policies) |->
                    PolicyErrors(spec, spec.policies.policies[i])])
    \o AiRuleErrors(spec, "entities", spec.entities, spec.policies.ai_entities)
    \o AiRuleErrors(spec, "actions", spec.actions, spec.policies.ai_actions)

\* lines 289-319 for one screen
ScreenErrors(spec, screen) ==
    (IF screen.entity /= "" /\ ~Defined(spec.entities, screen.entity)
     THEN MissingReference("ui.screens." \o screen.name, "entities." \o screen.entity)
     ELSE <<>>)
    \o (IF screen.load_action /= "" /\ ~Defined(spec.actions, screen.load_action)
        THEN MissingReference("ui.screens." \o screen.name, "actions." \o screen.load_action)
        ELSE <<>>)
    \o (IF screen.submit_action /= "" /\ ~Defined(spec.actions, screen.submit_action)
        THEN MissingReference("ui.screens." \o screen.name, "actions." \o screen.submit_action)
        ELSE <<>>)

validateUiReferences(spec) ==
    ConcatAll([i \in 1..Len(spec.ui.screens) |-> ScreenErrors(spec, spec.ui.screens[i])])

\* lines 325-359 for one job
JobErrors(spec, job) ==
    (IF job.queue /= "" /\ job.queue /= "default" /\ ~Defined(spec.jobs.queues, job.queue)
     THEN MissingReference("jobs." \o job.name, "jobs.queues." \o job.queue)
     ELSE <<>>)
    \o (IF job.dead_letter_queue /= "" /\ ~Defined(spec.jobs.queues, job.dead_letter_queue)
        THEN MissingReference("jobs." \o job.name, "jobs.queues." \o job.dead_letter_queue)
        ELSE <<>>)
    \o ConcatAll([i \in 1..Len(job.triggers) |->
                    IF ~Defined(spec.actions, job.triggers[i])
                    THEN MissingReference("jobs." \o job.name, "actions." \o job.triggers[i])
                    ELSE <<>>])

validateJobReferences(spec) ==
    ConcatAll([i \in 1..Len(spec.jobs.jobs) |-> JobErrors(spec, spec.jobs.jobs[i])])

\* lines 364-380: the Set usedEntities
EntityUses(entity) ==
    {entity.fields[i].reference[1].entity :
        i \in {j \in 1..Len(entity.fields) : Len(entity.fields[j].reference) = 1}}
    \cup {entity.relations[i].target : i \in 1..Len(entity.relations)}
    \cup {entity.relations[i].through :
            i \in {j \in 1..Len(entity.relations) : entity.relations[j].through /= ""}}

usedEntities(spec) ==
    {spec.actions[i].entity : i \in {j \in 1..Len(spec.actions) : spec.actions[j].entity /= ""}}
    \cup {spec.ui.screens[i].entity :
            i \in {j \in 1..Len(spec.ui.screens) : spec.ui.screens[j].entity /= ""}}
    \cup UNION {EntityUses(spec.entities[i]) : i \in 1..Len(spec.entities)}

\* lines 382-390
checkUnused(spec) ==
    ConcatAll([i \in 1..Len(spec.entities) |->
                 IF spec.entities[i].name \notin usedEntities(spec)
                 THEN <<LinkWarning("unused", "entities." \o spec.entities[i].name)>>
                 ELSE <<>>])

\* spec.entities[first] || spec.entities[second]: the entity found, if any
EitherEntity(spec, first, second) ==
    IF OwnEntry(spec.entities, first) THEN <<EntryOf(spec.entities, first)>>
    ELSE IF OwnEntry(spec.entities, second) THEN <<EntryOf(spec.entities, second)>>
    ELSE <<>>

\* a check that stops at the first violated invariant
JournalErrorsFirst(spec, journalEntry, journalLine) ==
    IF \/ ~(Defined(journalLine.fields, "debit") \/ Defined(journalLine.fields, "debit_amount"))
       \/ ~(Defined(journalLine.fields, "credit") \/ Defined(journalLine.fields, "credit_amount"))
    THEN <<LinkError("invariant_violation", "entities.JournalLine", "")>>
    ELSE IF journalEntry.immutable /= "true" /\ spec.product.profile = "prod"
    THEN <<LinkError("invariant_violation", "entities.JournalEntry", "")>>
    ELSE <<>>

\* lines 400-418, for the two entities found
JournalErrors(spec, journalEntry, journalLine) ==
    (IF \/ ~(Defined(journalLine.fields, "debit") \/ Defined(journalLine.fields, "debit_amount"))
        \/ ~(Defined(journalLine.fields, "credit") \/ Defined(journalLine.fields, "credit_amount"))
     THEN <<LinkError("invariant_violation", "entities.JournalLine", "")>>
     ELSE <<>>)
    \o (IF journalEntry.immutable /= "true" /\ spec.product.profile = "prod"
        THEN <<LinkError("invariant_violation", "entities.JournalEntry", "")>>
        ELSE <<>>)

\* lines 393-434; the multi-tenancy block (421-433) changes nothing
checkInvariants(spec) ==
    IF /\ Len(EitherEntity(spec, "JournalEntry", "journal_entry")) = 1
       /\ Len(EitherEntity(spec, "JournalLine", "journal_line")) = 1
    THEN JournalErrors(spec, EitherEntity(spec, "JournalEntry", "journal_entry")[1],
                       EitherEntity(spec, "JournalLine", "journal_line")[1])
    ELSE <<>>

(***************************************************************************)
(* JSON.stringify(spec, null, 0): the members of an object appear in the   *)
(* insertion order of its keys, an absent (undefined) member is left out.  *)
(***************************************************************************)
Quote(s) == "\"" \o s \o "\""

Member(key, json) == <<Quote(key) \o ":" \o json>>

OptText(key, s) == IF s = "" THEN <<>> ELSE Member(key, Quote(s))

OptFlag(key, b) == IF b = "" THEN <<>> ELSE Member(key, b)

JsonObject(members) == "{" \o JoinWith(members, ",") \o "}"

TextArray(list) == "[" \o JoinWith([i \in 1..Len(list) |-> Quote(list[i])], ",") \o "]"

OptList(key, list) == IF Len(list) = 0 THEN <<>> ELSE Member(key, TextArray(list))

\* an object whose values are rendered by Render, keys in insertion order
JsonMap(map, Render(_)) ==
    JsonObject(ConcatAll([i \in 1..Len(map) |-> Member(map[i].name, Render(map[i]))]))

OptMap(key, map, Render(_)) == IF Len(map) = 0 THEN <<>> ELSE Member(key, JsonMap(map, Render))

ReferenceJson(reference) ==
    JsonObject(Member("entity", Quote(reference.entity)) \o OptText("field", reference.field))

FieldJson(field) ==
    JsonObject(Member("type", Quote(field.type))
               \o (IF Len(field.reference) = 0 THEN <<>>
                   ELSE Member("reference", ReferenceJson(field.reference[1]))))

RelationJson(relation) ==
    JsonObject(Member("target", Quote(relation.target)) \o OptText("through", relation.through))

EntityJson(entity) ==
    JsonObject(OptText("description", entity.description)
               \o OptFlag("tenant_scoped", entity.tenant_scoped)
               \o OptFlag("immutable", entity.immutable)
               \o OptFlag("ai_suggest_only", entity.ai_suggest_only)
               \o Member("fields", JsonMap(entity.fields, FieldJson))
               \o OptMap("relations", entity.relations, RelationJson))

ActionJson(action) ==
    JsonObject(Member("type", Quote(action.type))
               \o OptText("description", action.description)
               \o OptText("entity", action.entity)
               \o OptFlag("idempotent", action.idempotent)
               \o (IF Len(action.roles) = 0 THEN <<>>
                   ELSE Member("auth", JsonObject(Member("roles", TextArray(action.roles)))))
               \o OptFlag("rate_limit", action.rate_limit)
               \o OptText("triggers_job", action.triggers_job))

TransitionJson(transition) ==
    JsonObject(Member("target", Quote(transition.target)) \o OptText("action", transition.action))

StepJson(step) ==
    JsonObject(Member("screen", Quote(step.screen))
               \o OptMap("transitions", step.transitions, TransitionJson)
               \o (IF step.on_enter = "" THEN <<>>
                   ELSE Member("on_enter", JsonObject(Member("action", Quote(step.on_enter))))))

FlowJson(flow) ==
    JsonObject(OptText("initial_step", flow.initial_step)
               \o Member("steps", JsonMap(flow.steps, StepJson)))

RoleJson(role) == JsonObject(OptList("inherits", role.inherits) \o OptList("can", role.can))

PolicyJson(policy) == JsonObject(Member("resource", Quote(policy.resource)))

EmptyJson(entry) == "{}"

PoliciesJson(p) ==
    JsonObject(OptMap("roles", p.roles, RoleJson)
               \o OptMap("policies", p.policies, PolicyJson)
               \o (IF Len(p.ai_entities) = 0 /\ Len(p.ai_actions) = 0 THEN <<>>
                   ELSE Member("ai_rules",
                               JsonObject(OptMap("entities", p.ai_entities, EmptyJson)
                                          \o OptMap("actions", p.ai_actions, EmptyJson)))))

ScreenJson(screen) ==
    JsonObject(OptText("entity", screen.entity)
               \o OptText("load_action", screen.load_action)
               \o OptText("submit_action", screen.submit_action))

JobJson(job) ==
    JsonObject(OptText("queue", job.queue)
               \o OptList("triggers", job.triggers)
               \o OptText("dead_letter_queue", job.dead_letter_queue))

ProfileJson(profile) ==
    JsonObject(OptFlag("require_idempotency", profile.require_idempotency)
               \o OptFlag("require_rate_limits", profile.require_rate_limits)
               \o OptFlag("strict_tenancy", profile.strict_tenancy))

ProductJson(product) ==
    JsonObject(Member("version", Quote(product.version))
               \o Member("profile", Quote(product.profile))
               \o OptMap("profiles", product.profiles, ProfileJson)
               \o Member("tenancy", JsonObject(Member("mode", Quote(product.tenancy_mode)))))

SpecJson(spec) ==
    JsonObject(Member("product", ProductJson(spec.product))
               \o Member("entities", JsonMap(spec.entities, EntityJson))
               \o Member("actions", JsonMap(spec.actions, ActionJson))
               \o Member("flows", JsonMap(spec.flows, FlowJson))
               \o Member("policies", PoliciesJson(spec.policies))
               \o Member("ui", JsonObject(OptMap("screens", spec.ui.screens, ScreenJson)))
               \o Member("jobs", JsonObject(OptMap("jobs", spec.jobs.jobs, JobJson)
                                            \o OptMap("queues", spec.jobs.queues, EmptyJson))))

\* sha256(content) in hex, cut to 16 digits: modelled as a digest that is the
\* same for the same content and differs for different content
Digest16(content) == <<"sha256", content>>

computeHash(spec) == Digest16(SpecJson(spec))

\* lines 31-41: the errors and the warnings of one call, in the order pushed
LinkErrors(spec) ==
    validateEntityReferences(spec) \o validateActionReferences(spec)
    \o validateFlowReferences(spec) \o validatePolicyReferences(spec)
    \o validateUiReferences(spec) \o validateJobReferences(spec)
    \o checkInvariants(spec)

\* lines 49-57
Bundle(spec, at) ==
    [spec |-> spec,
     meta |-> [version |-> spec.product.version, generated_at |-> at,
               hash |-> computeHash(spec)]]

\* a link that lets a warning block the bundle
LinkResultWarned(spec, errors, warnings, at) ==
    IF Len(errors) > 0 \/ Len(warnings) > 0
    THEN [op |-> "link", valid |-> FALSE, errors |-> errors, warnings |-> warnings,
          bundle |-> <<>>]
    ELSE [op |-> "link", valid |-> TRUE, errors |-> errors, warnings |-> warnings,
          bundle |-> <<Bundle(spec, at)>>]

\* lines 43-45 and 47-57
LinkResult(spec, errors, warnings, at) ==
    IF Len(errors) > 0
    THEN [op |-> "link", valid |-> FALSE, errors |-> errors, warnings |-> warnings,
          bundle |-> <<>>]
    ELSE [op |-> "link", valid |-> TRUE, errors |-> errors, warnings |-> warnings,
          bundle |-> <<Bundle(spec, at)>>]

link(spec, at) ==
    IF LinkThrows(spec) THEN [op |-> "threw"]
    ELSE LinkResult(spec, LinkErrors(spec), checkUnused(spec), at)

(***************************************************************************)
(* SpecValidator (spec-validator.ts).  A ValidationError is [path,         *)
(* message]; a ValidationWarning is modelled without its suggestion.  The  *)
(* schema files that loadSchemas reads are not part of the sources, so the *)
(* errors that the schema validation of lines 47-83 pushes are an input:   *)
(* schemaErrors, the same list whenever the same spec is validated.        *)
(***************************************************************************)
Finding(path, message) == [path |-> path, message |-> message]

NotIdempotent == "Commands must be idempotent in production profile"

\* lines 162-170 for one action
IdempotencyErrors(action) ==
    IF action.type = "command" /\ action.idempotent /= "true"
    THEN <<Finding("actions." \o action.name, NotIdempotent)>>
    ELSE <<>>

\* lines 176-183 for one action
RateLimitWarnings(action) ==
    IF action.rate_limit /= "true" /\ action.type = "command"
    THEN <<Finding("actions." \o action.name,
                   "Command should have rate limit defined for production")>>
    ELSE <<>>

\* lines 189-195 for one entity
TenancyWarnings(entity) ==
    IF entity.tenant_scoped = "false"
    THEN <<Finding("entities." \o entity.name,
                   "Entity is not tenant-scoped in multi-tenant mode")>>
    ELSE <<>>

\* lines 201-204
isFinancial(name) ==
    \/ Includes(toLowerCase(name), "journal")
    \/ Includes(toLowerCase(name), "ledger")
    \/ Includes(toLowerCase(name), "entry")
    \/ Includes(toLowerCase(name), "posting")

\* lines 206-212 for one entity
FinancialWarnings(entity) ==
    IF isFinancial(entity.name) /\ entity.ai_suggest_only /= "true"
    THEN <<Finding("entities." \o entity.name,
                   "Financial entity should be ai_suggest_only for safety")>>
    ELSE <<>>

\* a validator that takes require_idempotency: false for the default
ProductionErrorsAlways(spec, profileConfig) ==
    ConcatAll([i \in 1..Len(spec.actions) |-> IdempotencyErrors(spec.actions[i])])

\* lines 161-171: what validateProductionRules pushes to errors
ProductionErrors(spec, profileConfig) ==
    IF profileConfig.require_idempotency /= "false"
    THEN ConcatAll([i \in 1..Len(spec.actions) |-> IdempotencyErrors(spec.actions[i])])
    ELSE <<>>

\* lines 173-213: what validateProductionRules pushes to warnings
ProductionWarnings(spec, profileConfig) ==
    (IF profileConfig.require_rate_limits /= "false"
     THEN ConcatAll([i \in 1..Len(spec.actions) |-> RateLimitWarnings(spec.actions[i])])
     ELSE <<>>)
    \o (IF profileConfig.strict_tenancy /= "false" /\ spec.product.tenancy_mode = "multi"
        THEN ConcatAll([i \in 1..Len(spec.entities) |-> TenancyWarnings(spec.entities[i])])
        ELSE <<>>)
    \o ConcatAll([i \in 1..Len(spec.entities) |-> FinancialWarnings(spec.entities[i])])

validateProductionRules(spec, profileConfig) ==
    [errors |-> ProductionErrors(spec, profileConfig),
     warnings |-> ProductionWarnings(spec, profileConfig)]

\* lines 244-249: the Set referencedScreens
referencedScreens(spec) ==
    UNION {{spec.flows[i].steps[j].screen : j \in 1..Len(spec.flows[i].steps)} :
             i \in 1..Len(spec.flows)}

\* lines 222-256: what validateStrictRules pushes to warnings
StrictWarnings(spec) ==
    ConcatAll([i \in 1..Len(spec.entities) |->
                 IF spec.entities[i].description = ""
                 THEN <<Finding("entities." \o spec.entities[i].name,
                                "Entity should have a description")>>
                 ELSE <<>>])
    \o ConcatAll([i \in 1..Len(spec.actions) |->
                    IF spec.actions[i].description = ""
                    THEN <<Finding("actions." \o spec.actions[i].name,
                                   "Action should have a description")>>
                    ELSE <<>>])
    \o ConcatAll([i \in 1..Len(spec.ui.screens) |->
                    IF spec.ui.screens[i].name \notin referencedScreens(spec)
                    THEN <<Finding("ui.screens." \o spec.ui.screens[i].name,
                                   "Screen is not referenced by any flow")>>
                    ELSE <<>>])

\* strict rules that report what they find as errors
validateStrictRulesBlocking(spec) ==
    [errors |-> StrictWarnings(spec), warnings |-> <<>>]

\* lines 216-257: nothing is pushed to errors
validateStrictRules(spec) ==
    [errors |-> <<>>, warnings |-> StrictWarnings(spec)]

NoFindings == [errors |-> <<>>, warnings |-> <<>>]

\* line 86: options.profile || spec.product.profile
EffectiveProfile(spec, options) ==
    IF options.profile /= "" THEN options.profile ELSE spec.product.profile

EmptyConfig ==
    [name |-> "", require_idempotency |-> "", require_rate_limits |-> "", strict_tenancy |-> ""]

\* lines 87 and 90: spec.product.profiles?.[profile], and profileConfig || {};
\* the block found, if any
ProfileConfig(spec, profile) ==
    IF OwnEntry(spec.product.profiles, profile)
    THEN <<EntryOf(spec.product.profiles, profile)>>
    ELSE <<>>

\* lines 89-91
ProfileFindings(spec, profile) ==
    IF Len(ProfileConfig(spec, profile)) = 1
    THEN validateProductionRules(spec, ProfileConfig(spec, profile)[1])
    ELSE IF profile = "prod" THEN validateProductionRules(spec, EmptyConfig)
    ELSE NoFindings

\* lines 94-96
StrictFindings(spec, options) ==
    IF options.strict = "true" THEN validateStrictRules(spec) ELSE NoFindings

\* lines 98-102
ValidationResult(errors, warnings) ==
    [op |-> "validate", valid |-> (Len(errors) = 0), errors |-> errors, warnings |-> warnings]

validate(spec, options, schemaErrors) ==
    ValidationResult(schemaErrors
                       \o ProfileFindings(spec, EffectiveProfile(spec, options)).errors
                       \o StrictFindings(spec, options).errors,
                     ProfileFindings(spec, EffectiveProfile(spec, options)).warnings
                       \o StrictFindings(spec, options).warnings)

(***************************************************************************)
(* Inputs of the condition evaluator.                                      *)
(***************************************************************************)

NoData(id) == VObj(id, <<>>)

DraftOrder ==
    VObj("ctx.resource",
         [tenant_id |-> VStr("t1"), status |-> VStr("draft"), amount |-> VNum(500, 0),
          created_by |-> VStr("u1"), locked |-> VBool(TRUE), deleted_at |-> VNull,
          tag |-> VSym("tag")])

PostedOrder ==
    VObj("ctx.resource",
         [tenant_id |-> VStr("t2"), status |-> VStr("posted"), amount |-> VNum(20000, 0),
          created_by |-> VStr("u2"), locked |-> VBool(FALSE), deleted_at |-> VStr("2024-01-01")])

CtxDraft ==
    ConditionContext(VStr("u1"), VStr("t1"), <<"viewer">>, DraftOrder,
                     VObj("ctx.request", [amount |-> VNum(20000, 0)]))
CtxPosted ==
    ConditionContext(VStr("u1"), VStr("t1"), <<"editor", "viewer">>, PostedOrder,
                     NoData("ctx.request"))
CtxEmpty ==
    ConditionContext(VUndefined, VUndefined, <<>>, NoData("ctx.resource"),
                     NoData("ctx.request"))

CondContexts == {CtxDraft, CtxPosted, CtxEmpty}

\* dotted paths; the Missing ones resolve to undefined in every context above
PresentPaths == {"user.id", "user.tenant_id", "user.roles", "resource.tenant_id",
                 "resource.status", "resource.amount", "resource.locked",
                 "resource.deleted_at", "resource.tag", "request.amount",
                 "user.roles.length", "resource.constructor"}
MissingPaths == {"resource.missing", "resource.missing.deep", "nosuch", "user.manager.id"}
Literals     == {"'draft'", "\"t1\"", "'u1'", "500", "-1.5", "true", "null"}
ListLiterals == {"('draft', 'pending')", "(500,10000)", "('undefined', \"null\")", "()"}
Operands     == PresentPaths \cup MissingPaths \cup Literals

\* text that is no expression of the grammar
Malformed == {"not.a.valid>>expr", "", "   ", ">>", "= 5", "AND", "resource.status AND",
              "resource.status === 'draft'", "resource.status IN", "IN ('draft')",
              "NOT", "IS NULL", "(((", "'unterminated", "user..id", ".",
              "resource.status =", "resource.amount < ", "resource.amount<5"}

Input(form, a, op, b) == [form |-> form, a |-> a, op |-> op, b |-> b]

SimpleInputs ==
    {Input("cmp", a, operators[i], b) : a \in Operands, i \in 1..Len(operators), b \in Operands}
    \cup {Input("in", a, "IN", b) : a \in Operands, b \in ListLiterals \cup Operands}
    \cup {Input("isnull", a, "IS NULL", "") : a \in Operands}
    \cup {Input("isnotnull", a, "IS NOT NULL", "") : a \in Operands}
    \cup {Input("bool", a, "", "") : a \in Operands}
    \cup {Input("raw", a, "", "") : a \in Malformed}

Render(in) ==
    CASE in.form \in {"cmp", "in", "and", "or"} -> in.a \o " " \o in.op \o " " \o in.b
      [] in.form \in {"isnull", "isnotnull"} -> in.a \o " " \o in.op
      [] in.form = "not" -> "NOT " \o in.a
      [] OTHER -> in.a

\* operands of NOT, AND and OR
SubExprs == {"resource.locked", "resource.missing", "resource.status = 'draft'",
             "resource.missing IS NULL", "user.id = resource.created_by",
             "resource.tag < 5", "not.a.valid>>expr", "NOT resource.locked",
             "'admin' IN user.roles"}

CompoundInputs ==
    {Input("not", a, "NOT", "") : a \in SubExprs \cup Operands}
    \cup {Input("and", a, "AND", b) : a \in SubExprs, b \in SubExprs \cup {"true OR false"}}
    \cup {Input("or", a, "OR", b) : a \in SubExprs, b \in SubExprs}

CondInputs == SimpleInputs \cup CompoundInputs

(***************************************************************************)
(* States in which a component is not in use.                              *)
(***************************************************************************)

NoContext == PolicyContext(VUndefined, VUndefined, <<>>, VUndefined, VUndefined,
                        VUndefined, VUndefined)
NoResult  == PolicyResult(FALSE, VUndefined, VUndefined)

CondIdle == cExpr = "" /\ cCtx = VUndefined /\ cResult = "none" /\ cForm = Input("raw", "", "", "")
NoConfig == [given |-> FALSE, orig |-> <<>>, array |-> <<>>]
EngineIdle ==
    /\ policies = <<>> /\ roles = <<>> /\ eCtx = NoContext /\ eResult = NoResult
    /\ eCalled = FALSE /\ cfg = NoConfig /\ registered = <<>>
PermIdle ==
    /\ pReq = <<>> /\ pIdx = 1 /\ pStack = <<>> /\ pVisited = {} /\ pPerms = <<>>
    /\ pProcessed = <<>> /\ pPc = "done"
RateIdle ==
    /\ rlConfig = [requestsPerMinute |-> 0, burst |-> VUndefined] /\ store = <<>> /\ now = 0
    /\ rResult = [op |-> "none"] /\ winEnd = <<>> /\ winCalls = <<>> /\ uncleaned = <<>>
ConcIdle == callerPc = <<>> /\ callerKey = <<>> /\ callerRes = <<>> /\ granted = <<>>
FdIdle ==
    /\ fSpec = <<>> /\ fClock = 0 /\ lResult = [op |-> "none"] /\ lHashes = {}
    /\ vOptions = <<>> /\ vSchema = <<>> /\ vResult = [op |-> "none"]

(***************************************************************************)
(* SpecCond: one call of evaluateCondition on an input of CondInputs.      *)
(***************************************************************************)

InitCond ==
    /\ cForm \in CondInputs
    /\ cExpr = Render(cForm)
    /\ cCtx \in CondContexts
    /\ cResult = "none"
    /\ EngineIdle /\ PermIdle /\ RateIdle /\ ConcIdle /\ FdIdle

EvaluateCondition ==
    /\ cResult = "none"
    /\ cResult' = evaluateCondition(cExpr, cCtx)
    /\ UNCHANGED <<cExpr, cCtx, cForm, engineVars, permVars, rateVars, concVars, fdVars>>

NextCond == EvaluateCondition

SpecCond == InitCond /\ [][NextCond]_vars

(***************************************************************************)
(* SpecEngine: a PolicyEngine built from a configuration, then any         *)
(* sequence of addPolicy, addRole and evaluate calls.                      *)
(***************************************************************************)

MaxPolicies == 2

TenantIsolation ==
    PolicyRule("tenant_isolation", "*", VUndefined, "allow",
               <<Condition("require", "user.tenant_id = resource.tenant_id", VUndefined)>>,
               VStr("tenant_id = :tenant_id"), VNum(100, 0))
LockedGuard ==
    PolicyRule("locked_guard", "Order", VStr("update_order"), "allow",
               <<Condition("deny_if", "resource.locked = true", VStr("Order is locked"))>>,
               VUndefined, VNum(50, 0))
OwnerEdit ==
    PolicyRule("owner_edit", "Order", VStr("*"), "allow",
               <<Condition("allow_if", "user.id = resource.created_by", VUndefined)>>,
               VStr("created_by = :user_id"), VUndefined)
BlockPosted ==
    PolicyRule("block_posted", "Order", VUndefined, "deny",
               <<Condition("allow_if", "resource.status = 'posted'", VUndefined)>>,
               VUndefined, VNum(10, 0))
AllowOrders ==
    PolicyRule("allow_orders", "Order", VUndefined, "allow", <<>>, VUndefined, VNum(200, 0))
AuditHold ==
    PolicyRule("audit_hold", "Order", VUndefined, "allow",
               <<Condition("deny_if", "resource.status IN ('posted', 'void')",
                           VStr("Posted orders are frozen")),
                 Condition("allow_if", "'editor' IN user.roles", VUndefined)>>,
               VStr("status = 'draft'"), VNum(0, 0))
InvoiceFreeze ==
    PolicyRule("invoice_freeze", "Invoice", VUndefined, "deny", <<>>, VUndefined, VUndefined)

PolicyPool == {TenantIsolation, LockedGuard, OwnerEdit, BlockPosted, AllowOrders,
               AuditHold, InvoiceFreeze}

BaseRoles ==
    [viewer |-> RoleDefinition("viewer", <<>>, <<>>, <<"list_orders">>),
     editor |-> RoleDefinition("editor", <<"viewer">>, <<"update_order">>, <<>>)]
CyclicRoles ==
    [viewer |-> RoleDefinition("viewer", <<"editor">>, <<>>, <<"list_orders">>),
     editor |-> RoleDefinition("editor", <<"viewer">>, <<"update_order">>, <<>>)]
OpsRole == RoleDefinition("ops", <<"viewer">>, <<"*">>, <<>>)

ContextRoles   == {<<"viewer">>, <<"editor">>, <<"ops">>, <<"admin">>,
                   <<"viewer", "super_admin">>}
ContextActions == {VUndefined, VStr("list_orders"), VStr("update_order"), VStr("delete_order")}
ContextResources == {VStr("Order"), VUndefined}
ContextData    == {DraftOrder, PostedOrder}

Contexts ==
    {PolicyContext(VStr("u1"), VStr("t1"), r, res, a, data, VUndefined) :
        r \in ContextRoles, res \in ContextResources, a \in ContextActions, data \in ContextData}
    \cup {PolicyContext(VUndefined, VUndefined, <<"viewer">>, VStr("Order"), a, VUndefined, VUndefined) :
            a \in {VStr(""), VStr("list_orders")}}

\* config.policies as the caller built it: one policy, or two of them in
\* ascending, in equal and in descending priority
ConfigLists ==
    {<<OwnerEdit>>, <<OwnerEdit, TenantIsolation>>, <<AuditHold, OwnerEdit>>,
     <<AllowOrders, BlockPosted>>}

\* line 49: Array.prototype.sort sorts the caller's array in place and returns
\* that same array, which becomes this.policies
ConfigGiven(list) == [given |-> TRUE, orig |-> list, array |-> SortByPriority(list)]

\* new PolicyEngine(config), lines 44-58: config without policies, or with
InitEngine ==
    /\ \/ cfg = NoConfig /\ policies = <<>> /\ registered = <<>>
       \/ \E list \in ConfigLists :
            cfg = ConfigGiven(list) /\ policies = cfg.array /\ registered = list
    /\ roles \in {BaseRoles, CyclicRoles}
    /\ eCtx = NoContext /\ eResult = NoResult /\ eCalled = FALSE
    /\ CondIdle /\ PermIdle /\ RateIdle /\ ConcIdle /\ FdIdle

\* eCalled marks the state in which evaluate has just returned: eCtx and eResult
\* are that call's argument and result.  The calls are synchronous, so the next
\* operation starts after the caller has taken the result (TakeResult).
addPolicy(policy) ==
    /\ ~eCalled
    /\ Len(policies) < MaxPolicies
    /\ policies' = SortByPriority(Append(policies, policy))
    /\ cfg' = IF cfg.given THEN [cfg EXCEPT !.array = policies'] ELSE cfg
    /\ registered' = Append(registered, policy)
    /\ UNCHANGED <<roles, eCtx, eResult, eCalled, condVars, permVars, rateVars, concVars, fdVars>>

addRole(name, role) ==
    /\ ~eCalled
    /\ roles' = [k \in DOMAIN roles \cup {name} |-> IF k = name THEN role ELSE roles[k]]
    /\ UNCHANGED <<policies, eCtx, eResult, eCalled, cfg, registered,
                   condVars, permVars, rateVars, concVars, fdVars>>

Evaluate(ctx) ==
    /\ ~eCalled
    /\ eCtx' = ctx
    /\ eResult' = evaluate(policies, roles, ctx)
    /\ eCalled' = TRUE
    /\ UNCHANGED <<policies, roles, cfg, registered, condVars, permVars, rateVars, concVars, fdVars>>

TakeResult ==
    /\ eCalled
    /\ eCtx' = NoContext /\ eResult' = NoResult /\ eCalled' = FALSE
    /\ UNCHANGED <<policies, roles, cfg, registered, condVars, permVars, rateVars, concVars, fdVars>>

NextEngine ==
    \/ \E p \in PolicyPool : addPolicy(p)
    \/ addRole("ops", OpsRole)
    \/ \E ctx \in Contexts : Evaluate(ctx)
    \/ TakeResult

SpecEngine == InitEngine /\ [][NextEngine]_vars

(***************************************************************************)
(* Claims about PolicyEngine.evaluate, checked under SpecEngine.           *)
(***************************************************************************)

HasAdminRole(ctx) ==
    \E i \in 1..Len(ctx.roles) : ctx.roles[i] \in {"admin", "super_admin"}

\* the roles reachable from a role list through inherits, and what they grant
RECURSIVE ReachableRoles(_, _)
ReachableRoles(roleMap, names) ==
    LET parents == UNION {{roleMap[r].inherits[i] : i \in 1..Len(roleMap[r].inherits)} :
                            r \in names \cap DOMAIN roleMap}
    IN IF parents \subseteq names THEN names ELSE ReachableRoles(roleMap, names \cup parents)

GrantedBy(roleMap, roleList) ==
    UNION {{roleMap[r].permissions[i] : i \in 1..Len(roleMap[r].permissions)}
             \cup {roleMap[r].can[i] : i \in 1..Len(roleMap[r].can)} :
           r \in ReachableRoles(roleMap, {roleList[i] : i \in 1..Len(roleList)})
                   \cap DOMAIN roleMap}

ConditionHolds(condition, ctx) ==
    evaluateCondition(condition.expression, conditionCtx(ctx)) = "true"

HasTrueDenyIf(policy, ctx) ==
    \E j \in 1..Len(policy.conditions) :
        policy.conditions[j].type = "deny_if" /\ ConditionHolds(policy.conditions[j], ctx)

AllConditionsHold(policy, ctx) ==
    \A j \in 1..Len(policy.conditions) :
        IF policy.conditions[j].type = "deny_if"
        THEN ~ConditionHolds(policy.conditions[j], ctx)
        ELSE ConditionHolds(policy.conditions[j], ctx)

PastTheGate == eCalled /\ ~HasAdminRole(eCtx) /\ ~RbacDenies(roles, eCtx)

StatusIs(ctx, status) ==
    ctx.resourceData.t = "object" /\ ctx.resourceData.f.status.s = status

\* C1 (deny precedence): a non-admin caller who passes the RBAC gate is denied
\* whenever some applicable policy, at whatever priority, has a deny_if
\* condition that evaluates true, also when another applicable policy allows.
C1_DenyPrecedence ==
    (PastTheGate /\ \E i \in 1..Len(policies) :
                        IsApplicable(policies[i], eCtx) /\ HasTrueDenyIf(policies[i], eCtx))
        => eResult.allowed = FALSE

\* a higher-priority allow policy has passed and a lower-priority deny_if matches
C1_Witness ==
    /\ PastTheGate
    /\ Len(policies) = 2 /\ policies[1] = AllowOrders /\ policies[2] = AuditHold
    /\ IsApplicable(policies[1], eCtx) /\ AllConditionsHold(policies[1], eCtx)
    /\ IsApplicable(policies[2], eCtx) /\ HasTrueDenyIf(policies[2], eCtx)
    /\ eResult.allowed = FALSE

\* C2 (admin bypass): a caller whose roles contain admin or super_admin is
\* allowed, whatever the action, resource, role map and registered policies.
C2_AdminBypass == (eCalled /\ HasAdminRole(eCtx)) => eResult.allowed = TRUE

\* a super_admin without the role permission, facing a true deny_if
C2_Witness ==
    /\ eCalled /\ eCtx.roles = <<"viewer", "super_admin">>
    /\ RbacDenies(roles, eCtx)
    /\ \E i \in 1..Len(policies) :
          IsApplicable(policies[i], eCtx) /\ HasTrueDenyIf(policies[i], eCtx)
    /\ eResult.allowed = TRUE

NamesAction(ctx) == ctx.action.t = "string" /\ ctx.action.s /= ""

\* C3 (RBAC gate): a non-admin caller naming an action that is neither granted
\* by the roles reachable from the caller's roles nor covered by a granted '*'
\* is denied with the 'no role permission' reason, whatever the policies.
C3_RbacGate ==
    (/\ eCalled /\ ~HasAdminRole(eCtx) /\ NamesAction(eCtx)
     /\ eCtx.action.s \notin GrantedBy(roles, eCtx.roles)
     /\ "*" \notin GrantedBy(roles, eCtx.roles))
        => /\ eResult.allowed = FALSE
           /\ eResult.reason = VStr("No role permission for action: " \o eCtx.action.s)

\* a viewer asks for delete_order while an unconditional allow policy applies
C3_Witness ==
    /\ eCalled /\ eCtx.roles = <<"viewer">> /\ eCtx.action = VStr("delete_order")
    /\ \E i \in 1..Len(policies) :
          /\ IsApplicable(policies[i], eCtx) /\ policies[i].effect = "allow"
          /\ policies[i].conditions = <<>>
    /\ eResult.allowed = FALSE

\* C4 (default permit): a non-admin caller who passes the RBAC gate is allowed,
\* with an empty filter list, when no registered policy is applicable.
C4_DefaultPermit ==
    (PastTheGate /\ \A i \in 1..Len(policies) : ~IsApplicable(policies[i], eCtx))
        => /\ eResult.allowed = TRUE
           /\ eResult.filters.t = "array" /\ eResult.filters.e = <<>>

\* the viewer of the end-to-end scenario lists orders; the only policy is about invoices
C4_Witness ==
    /\ PastTheGate /\ eCtx.roles = <<"viewer">> /\ eCtx.action = VStr("list_orders")
    /\ eCtx.resource = VStr("Order") /\ policies = <<InvoiceFreeze>>
    /\ eResult.allowed = TRUE /\ eResult.filters.e = <<>>

\* expressions that neither parse nor resolve
Unparseable == {"not.a.valid>>expr", "resource.status =", ""}

WithExpression(list, i, j, expression) ==
    [list EXCEPT ![i].conditions[j].expression = expression]

\* C7 (a malformed condition never grants access): replacing the expression of
\* any one condition of any registered policy by text that neither parses nor
\* resolves never turns a denied evaluate call into an allowed one.
C7_MalformedNeverGrants ==
    eCalled =>
        \A i \in 1..Len(policies) : \A j \in 1..Len(policies[i].conditions) :
            \A bad \in Unparseable :
                evaluate(WithExpression(policies, i, j, bad), roles, eCtx).allowed
                    => eResult.allowed

\* the filters of the policies of list that apply to ctx, have the effect
\* allow, a filter, and conditions that all pass, in the order of list
RECURSIVE PassedFilters(_, _)
PassedFilters(list, ctx) ==
    IF Len(list) = 0 THEN <<>>
    ELSE (IF /\ IsApplicable(Head(list), ctx)
             /\ Head(list).effect = "allow"
             /\ Head(list).filter /= VUndefined
             /\ AllConditionsHold(Head(list), ctx)
          THEN <<Head(list).filter>> ELSE <<>>)
         \o PassedFilters(Tail(list), ctx)

HasFalseAllowIf(policy, ctx) ==
    \E j \in 1..Len(policy.conditions) :
        policy.conditions[j].type = "allow_if" /\ ~ConditionHolds(policy.conditions[j], ctx)

\* C22: when evaluate allows a caller who is past the admin bypass and the
\* RBAC gate, the filters returned are exactly the filters of the applicable
\* allow policies whose conditions all passed, in priority order; a result
\* with allowed = FALSE carries no filters.
C22_FilterAccumulation ==
    /\ (PastTheGate /\ eResult.allowed = TRUE) =>
          /\ eResult.filters.t = "array"
          /\ eResult.filters.e = PassedFilters(policies, eCtx)
    /\ (eCalled /\ eResult.allowed = FALSE) => eResult.filters = VUndefined

\* an allow with one filter collected, next to an applicable allow policy
\* that has a filter and was disqualified by a false allow_if
C22_Witness ==
    /\ PastTheGate /\ eResult.allowed = TRUE
    /\ Len(eResult.filters.e) = 1
    /\ \E i \in 1..Len(policies) :
         /\ IsApplicable(policies[i], eCtx)
         /\ policies[i].effect = "allow"
         /\ policies[i].filter /= VUndefined
         /\ HasFalseAllowIf(policies[i], eCtx)

\* the reason a condition denies with, if it denies: a deny_if that is true
\* or a require that is false; the message, else a text with the policy name
ConditionDeny(policy, condition, ctx) ==
    IF condition.type = "deny_if" /\ ConditionHolds(condition, ctx)
    THEN <<IF condition.message /= VUndefined THEN condition.message.s ELSE policy.name>>
    ELSE IF condition.type = "require" /\ ~ConditionHolds(condition, ctx)
    THEN <<IF condition.message /= VUndefined THEN condition.message.s
           ELSE "Requirement not met: " \o policy.name>>
    ELSE <<>>

\* the first denial among the conditions of policy from the j-th on
RECURSIVE FirstConditionDeny(_, _, _)
FirstConditionDeny(policy, j, ctx) ==
    IF j > Len(policy.conditions) THEN <<>>
    ELSE IF ConditionDeny(policy, policy.conditions[j], ctx) /= <<>>
    THEN ConditionDeny(policy, policy.conditions[j], ctx)
    ELSE FirstConditionDeny(policy, j + 1, ctx)

\* the explicit deny of one policy, if any: its first denying condition, else
\* its deny effect when its conditions pass
PolicyDeny(policy, ctx) ==
    IF FirstConditionDeny(policy, 1, ctx) /= <<>> THEN FirstConditionDeny(policy, 1, ctx)
    ELSE IF policy.effect = "deny" /\ AllConditionsHold(policy, ctx) THEN <<policy.name>>
    ELSE <<>>

\* the first explicit deny among the applicable policies of list, in order
RECURSIVE FirstDeny(_, _)
FirstDeny(list, ctx) ==
    IF Len(list) = 0 THEN <<>>
    ELSE IF IsApplicable(Head(list), ctx) /\ PolicyDeny(Head(list), ctx) /= <<>>
    THEN PolicyDeny(Head(list), ctx)
    ELSE FirstDeny(Tail(list), ctx)

\* C23: for a caller past the admin bypass and the RBAC gate, when some
\* applicable policy denies explicitly, evaluate returns allowed = FALSE with
\* the reason of the first explicit deny in priority and declaration order;
\* no later condition or policy changes it.
C23_FirstDenyWins ==
    (PastTheGate /\ FirstDeny(policies, eCtx) /= <<>>) =>
        /\ eResult.allowed = FALSE
        /\ eResult.reason = VStr(FirstDeny(policies, eCtx)[1])

\* the part of C23 that the code keeps: an explicit deny always denies, with
\* the reason of some explicit deny of an applicable policy
SomeDenyWins ==
    (PastTheGate /\ FirstDeny(policies, eCtx) /= <<>>) =>
        /\ eResult.allowed = FALSE
        /\ \E i \in 1..Len(policies) :
            /\ IsApplicable(policies[i], eCtx)
            /\ \/ eResult.reason = VStr(policies[i].name) /\ policies[i].effect = "deny"
               \/ \E j \in 1..Len(policies[i].conditions) :
                    <<eResult.reason.s>> = ConditionDeny(policies[i], policies[i].conditions[j], eCtx)

\* policy records neither an allow nor an explicit deny for ctx: none of its
\* conditions denies and some allow_if is false
RecordsNothing(policy, ctx) ==
    PolicyDeny(policy, ctx) = <<>> /\ HasFalseAllowIf(policy, ctx)

\* C24: for a caller past the admin bypass and the RBAC gate, when at least
\* one policy is applicable and no applicable policy records an allow or an
\* explicit deny, evaluate returns allowed = FALSE with the reason
\* 'No matching allow policy'.
C24_NoMatchingAllow ==
    (/\ PastTheGate
     /\ \E i \in 1..Len(policies) : IsApplicable(policies[i], eCtx)
     /\ \A i \in 1..Len(policies) :
          IsApplicable(policies[i], eCtx) => RecordsNothing(policies[i], eCtx))
        => /\ eResult.allowed = FALSE
           /\ eResult.reason = VStr("No matching allow policy")

\* two applicable policies, each with a false allow_if, and the denial
C24_Witness ==
    /\ PastTheGate
    /\ Len(policies) = 2
    /\ \A i \in 1..2 : IsApplicable(policies[i], eCtx) /\ RecordsNothing(policies[i], eCtx)
    /\ policies[1] /= policies[2]
    /\ eResult.reason = VStr("No matching allow policy")

(***************************************************************************)
(* Claims about the policy list, checked under SpecEngine.                 *)
(***************************************************************************)

\* the priority a policy counts with: a missing priority is 0
CountedPriority(p) == IF p.priority = VUndefined THEN 0 ELSE p.priority.n

\* the policies of list that count with priority v, in the order of list
RECURSIVE AtPriority(_, _)
AtPriority(list, v) ==
    IF Len(list) = 0 THEN <<>>
    ELSE (IF CountedPriority(Head(list)) = v THEN <<Head(list)>> ELSE <<>>)
         \o AtPriority(Tail(list), v)

\* C21: after construction and after any addPolicy calls the policy list is
\* in descending priority, a missing priority counting as 0, and the policies
\* of one priority are in the order in which they were registered.
C21_PriorityOrder ==
    /\ \A i, j \in 1..Len(policies) :
         i < j => CountedPriority(policies[i]) >= CountedPriority(policies[j])
    /\ Len(policies) = Len(registered)
    /\ \A k \in 1..Len(registered) :
         AtPriority(policies, CountedPriority(registered[k]))
           = AtPriority(registered, CountedPriority(registered[k]))

\* two different policies of priority 0, one without a priority, added one
\* after the other: they stay in that order
C21_Witness ==
    /\ ~cfg.given
    /\ Len(registered) = 2
    /\ registered[1] /= registered[2]
    /\ registered[2].priority = VUndefined
    /\ CountedPriority(registered[1]) = 0
    /\ policies = registered

\* a constructor call that had to reorder the configured policies
SortedAtConstruction ==
    cfg.given /\ Len(cfg.orig) = 2 /\ policies = <<cfg.orig[2], cfg.orig[1]>>


\* C30: the caller's config.policies array holds the same elements in the
\* same order as when it was handed to the constructor, whatever the engine
\* has done since.
C30_CallerArrayUnchanged == cfg.given => cfg.array = cfg.orig

\* the part of C30 that the code keeps: no operation of the engine other than
\* addPolicy changes the registered policies
OnlyAddPolicyRegisters ==
    [][policies' /= policies => \E p \in PolicyPool : addPolicy(p)]_vars

\* what the code does instead: the caller's array is the engine's list
CallerArrayIsEngineList == cfg.given => cfg.array = policies

(***************************************************************************)
(* Claims about evaluateCondition, checked under SpecCond.                 *)
(***************************************************************************)

\* no branch of evaluateCondition before the boolean fallback takes the text
NoOperatorForm(expr) ==
    /\ ~Includes(expr, " AND ") /\ ~Includes(expr, " OR ") /\ ~StartsWith(expr, "NOT ")
    /\ ~Includes(expr, " IS NOT NULL") /\ ~Includes(expr, " IS NULL")
    /\ ~Includes(expr, " IN ")
    /\ \A i \in 1..Len(operators) : ~Includes(expr, " " \o operators[i] \o " ")

\* C5 (total and fail-closed): every call of evaluateCondition returns true or
\* false, never an exception; text that matches no operator form and resolves
\* to no value of the context returns false.
C5_TotalFailClosed ==
    cResult /= "none" =>
        /\ cResult \in {"true", "false"}
        /\ (NoOperatorForm(Trim(cExpr)) /\ resolveValue(cExpr, cCtx).t = "undefined")
              => cResult = "false"

C5_Witness == cExpr = "not.a.valid>>expr" /\ cResult = "false"

IsPath(operand) == operand \in PresentPaths \cup MissingPaths

\* the operand is a dotted path that the context does not hold
IsMissing(operand) == IsPath(operand) /\ resolveValue(operand, cCtx).t = "undefined"

\* the call is over and its expression, of one of the forms of the claim,
\* has a missing path as an operand
ReferencesMissing ==
    /\ cResult /= "none"
    /\ \/ cForm.form \in {"cmp", "in"} /\ (IsMissing(cForm.a) \/ IsMissing(cForm.b))
       \/ cForm.form \in {"isnull", "isnotnull", "bool"} /\ IsMissing(cForm.a)
       \/ cForm.form = "not" /\ IsMissing(cForm.a)

\* C6 as claimed: an expression of any form that references a missing path
\* evaluates to false.
C6_MissingIsFalse == ReferencesMissing => cResult = "false"

\* the items of a parenthesized list, read as the IN branch reads them
ListItems(text) ==
    LET raw == Split(SliceInner(text), ",")
    IN {StripQuotes(Trim(raw[i])) : i \in 1..Len(raw)}

\* what a missing path makes of each form: TRUE, FALSE
MissingOutcome ==
    LET other  == IF IsMissing(cForm.a) THEN cForm.b ELSE cForm.a
        both   == resolveValue(other, cCtx).t = "undefined"
        right  == resolveValue(cForm.b, cCtx)
    IN CASE cForm.form \in {"bool", "isnotnull"} -> FALSE
         [] cForm.form \in {"isnull", "not"} -> TRUE
         [] cForm.form = "cmp" /\ cForm.op = "="  -> both
         [] cForm.form = "cmp" /\ cForm.op = "!=" -> ~both
         [] cForm.form = "cmp" -> FALSE
         [] cForm.form = "in" /\ IsMissing(cForm.b) -> FALSE
         [] cForm.form = "in" ->
               IF right.t = "array"
               THEN \E i \in 1..Len(right.e) : right.e[i].t = "undefined"
               ELSE /\ right.t = "string" /\ StartsWith(right.s, "(")
                    /\ "undefined" \in ListItems(right.s)

\* C6 (amended): a missing path makes evaluateCondition return false in the
\* boolean fallback, in IS NOT NULL, in <, <=, >, >=, in = against an operand
\* that resolves to something other than undefined, in != against an operand
\* that resolves to undefined, in IN when it is the right operand, and in IN
\* when it is the left operand and the list holds no undefined entry and does
\* not spell the text undefined; it returns true in IS NULL, in NOT, in =
\* between two operands that both resolve to undefined, in != against any other
\* operand, and in IN against a list that spells undefined.
C6_MissingByForm == ReferencesMissing => cResult = OfBool(MissingOutcome)

C6_Witness ==
    /\ cResult = "true" /\ cForm.form = "isnull" /\ IsMissing(cForm.a)
    /\ cForm.a = "resource.missing.deep"

(***************************************************************************)
(* SpecIn: one call of evaluateCondition on "L IN (v1, ..., vn)", the      *)
(* right side a parenthesized comma list of quoted or numeric literals.    *)
(***************************************************************************)

MaxItems == 2

InLefts == {"resource.status", "resource.amount", "user.id", "resource.missing", "'draft'"}

\* literals as they are written in the list
InLiterals == {"'draft'", "'pending'", "\"posted\"", "500", "'u1'", "'draft,paid'",
               "'sent OR posted'"}

InLists == UNION {[1..n -> InLiterals] : n \in 1..MaxItems}

InSeparators == {",", ", "}

RenderList(in) == in.a \o " IN (" \o JoinWith(in.b, in.op) \o ")"

InitIn ==
    /\ \E left \in InLefts, list \in InLists, sep \in InSeparators :
          cForm = Input("inlist", left, sep, list)
    /\ cExpr = RenderList(cForm)
    /\ cCtx \in CondContexts
    /\ cResult = "none"
    /\ EngineIdle /\ PermIdle /\ RateIdle /\ ConcIdle /\ FdIdle

EvaluateIn ==
    /\ cResult = "none"
    /\ cResult' = evaluateCondition(cExpr, cCtx)
    /\ UNCHANGED <<cExpr, cCtx, cForm, engineVars, permVars, rateVars, concVars, fdVars>>

NextIn == EvaluateIn

SpecIn == InitIn /\ [][NextIn]_vars

\* a literal with its quotes stripped
LiteralText(lit) ==
    IF Len(lit) >= 2 /\ IsQuote(SubSeq(lit, 1, 1)) /\ SubSeq(lit, Len(lit), Len(lit)) = SubSeq(lit, 1, 1)
    THEN SliceInner(lit) ELSE lit

\* the string form of the left operand's value equals one of the literals
LeftIsListed ==
    \E i \in 1..Len(cForm.b) : LiteralText(cForm.b[i]) = StringOf(resolveValue(cForm.a, cCtx))

\* C18 as claimed: for every list of quoted or numeric literals the call is
\* true iff the string form of L's value equals one of the literals with its
\* quotes stripped.
C18_InListParsing ==
    (cForm.form = "inlist" /\ cResult /= "none") => (cResult = "true" <=> LeftIsListed)

\* the text is split at every comma and tested for AND, OR, NOT and the null
\* checks before IN: a list is read literal by literal when no literal
\* holds a comma and the text holds none of those words
PlainList ==
    /\ \A i \in 1..Len(cForm.b) : ~Includes(cForm.b[i], ",")
    /\ ~Includes(cExpr, " AND ") /\ ~Includes(cExpr, " OR ") /\ ~StartsWith(cExpr, "NOT ")
    /\ ~Includes(cExpr, " IS NOT NULL") /\ ~Includes(cExpr, " IS NULL")
    /\ Len(Split(cExpr, " IN ")) = 2

\* C18 (IN-list literal parsing), amended: when no literal of the list holds a
\* comma and the text holds no " AND ", " OR ", " IS NULL", " IS NOT NULL",
\* no leading "NOT " and one " IN ", evaluateCondition is true iff the string
\* form of L's resolved value equals one of the literals with quotes stripped;
\* resource.status IN ('draft','pending') is true for status 'draft' and false
\* for 'posted'.
C18_PlainListParsing ==
    (cForm.form = "inlist" /\ cResult /= "none" /\ PlainList) =>
        /\ cResult = "true" <=> LeftIsListed
        /\ (cExpr = "resource.status IN ('draft','pending')" /\ cCtx = CtxDraft)
              => cResult = "true"
        /\ (cExpr = "resource.status IN ('draft','pending')" /\ cCtx = CtxPosted)
              => cResult = "false"

\* the spec's example on a posted order: the list is parsed, nothing matches
C18_Witness ==
    /\ cExpr = "resource.status IN ('draft','pending')" /\ cCtx = CtxPosted
    /\ cResult = "false" /\ PlainList

(***************************************************************************)
(* SpecLogic: one call of evaluateCondition on operands joined by AND and  *)
(* OR, each operand an expression without AND and OR, with or without a    *)
(* leading NOT.  cForm.a holds the operands, cForm.op the connectives.     *)
(***************************************************************************)

MaxOperands == 3

LogicAtoms == {"resource.locked", "resource.status = 'posted'"}

LogicOperands == {[neg |-> neg, atom |-> atom] : neg \in BOOLEAN, atom \in LogicAtoms}

Connectives == {"AND", "OR"}

LogicForms ==
    UNION {{Input("logic", operands, connectives, "") :
              operands \in [1..n -> LogicOperands], connectives \in [1..(n - 1) -> Connectives]} :
           n \in 2..MaxOperands}

OperandText(operand) == (IF operand.neg THEN "NOT " ELSE "") \o operand.atom

\* the operands from the i-th on, each preceded by its connective
RECURSIVE RenderRest(_, _)
RenderRest(in, i) ==
    IF i > Len(in.a) THEN ""
    ELSE " " \o in.op[i - 1] \o " " \o OperandText(in.a[i]) \o RenderRest(in, i + 1)

RenderLogic(in) == OperandText(in.a[1]) \o RenderRest(in, 2)

InitLogic ==
    /\ cForm \in LogicForms
    /\ cExpr = RenderLogic(cForm)
    /\ cCtx \in CondContexts
    /\ cResult = "none"
    /\ EngineIdle /\ PermIdle /\ RateIdle /\ ConcIdle /\ FdIdle

EvaluateLogic ==
    /\ cResult = "none"
    /\ cResult' = evaluateCondition(cExpr, cCtx)
    /\ UNCHANGED <<cExpr, cCtx, cForm, engineVars, permVars, rateVars, concVars, fdVars>>

NextLogic == EvaluateLogic

SpecLogic == InitLogic /\ [][NextLogic]_vars

\* the truth of an operand: that of its atom, negated by a leading NOT
OperandTrue(operand, ctx) ==
    operand.neg /= (evaluateCondition(operand.atom, ctx) = "true")

\* operands i and j are joined by OR only
SameOrGroup(in, i, j) ==
    \A k \in 1..(Len(in.a) - 1) :
        ((i <= k /\ k < j) \/ (j <= k /\ k < i)) => in.op[k] = "OR"

\* AND of the groups that the ANDs separate, each group the OR of its operands
GroupedTruth(in, ctx) ==
    \A i \in 1..Len(in.a) :
        \E j \in 1..Len(in.a) : SameOrGroup(in, i, j) /\ OperandTrue(in.a[j], ctx)

\* C25: the expression is split at AND first, then at OR, and NOT applies to
\* the operand it leads: the result is true iff every AND-separated part has
\* an operand that is true, so 'A OR B AND C' is (A OR B) AND C and
\* 'NOT A AND B' is (NOT A) AND B.
C25_LogicalOrder ==
    cResult /= "none" =>
        cResult = (IF GroupedTruth(cForm, cCtx) THEN "true" ELSE "false")

\* 'A OR B AND C' with A true and C false: false, where A OR (B AND C) is true
C25_Witness ==
    /\ cResult = "false"
    /\ Len(cForm.a) = 3
    /\ cForm.op = <<"OR", "AND">>
    /\ OperandTrue(cForm.a[1], cCtx)
    /\ ~OperandTrue(cForm.a[3], cCtx)

\* 'NOT A AND B' with A false and B false: false, where NOT (A AND B) is true
NotBindsOperand ==
    /\ cResult = "false"
    /\ Len(cForm.a) = 2
    /\ cForm.op = <<"AND">>
    /\ cForm.a[1].neg /\ ~cForm.a[2].neg
    /\ OperandTrue(cForm.a[1], cCtx)
    /\ ~OperandTrue(cForm.a[2], cCtx)

(***************************************************************************)
(* SpecPerm: one call of getEffectivePermissions(roleNames), one step per  *)
(* call of, return from, and loop iteration of processRole.  A frame of    *)
(* pStack is [role, pos]: pos = 0 at the entry of processRole(role), and   *)
(* pos = k >= 1 before the k-th iteration of the loop over role.inherits.  *)
(***************************************************************************)

MaxDepth == 6

CycleAB ==
    [A |-> RoleDefinition("A", <<"B">>, <<"read">>, <<>>),
     B |-> RoleDefinition("B", <<"A">>, <<>>, <<"write">>)]
SelfLoop ==
    [A |-> RoleDefinition("A", <<"A", "B">>, <<"read">>, <<"read">>),
     B |-> RoleDefinition("B", <<"D">>, <<"write">>, <<>>)]
Diamond ==
    [A |-> RoleDefinition("A", <<"B", "C">>, <<"read">>, <<>>),
     B |-> RoleDefinition("B", <<"C">>, <<"write">>, <<>>),
     C |-> RoleDefinition("C", <<>>, <<"read">>, <<"approve">>)]
CycleABC ==
    [A |-> RoleDefinition("A", <<"B">>, <<"read">>, <<>>),
     B |-> RoleDefinition("B", <<"C">>, <<"write">>, <<>>),
     C |-> RoleDefinition("C", <<"A", "B">>, <<>>, <<"approve">>)]

PermRoleMaps == {CycleAB, SelfLoop, Diamond, CycleABC}
PermRequests == {<<>>, <<"A">>, <<"B">>, <<"A", "B">>, <<"B", "B">>, <<"D", "C", "A">>}

Top == pStack[Len(pStack)]
Pop == SubSeq(pStack, 1, Len(pStack) - 1)
Frame(role, pos) == [role |-> role, pos |-> pos]

InitPerm ==
    /\ roles \in PermRoleMaps
    /\ pReq \in PermRequests
    /\ pIdx = 1 /\ pStack = <<>> /\ pVisited = {} /\ pPerms = <<>> /\ pProcessed = <<>>
    /\ pPc = "run"
    /\ policies = <<>> /\ eCtx = NoContext /\ eResult = NoResult /\ eCalled = FALSE
    /\ cfg = NoConfig /\ registered = <<>>
    /\ CondIdle /\ RateIdle /\ ConcIdle /\ FdIdle

permFrame == <<policies, roles, eCtx, eResult, eCalled, cfg, registered, pReq,
               condVars, rateVars, concVars, fdVars>>

\* lines 188-190: the loop over roleNames calls processRole(roleName, visited)
CallForRequested ==
    /\ pPc = "run" /\ pStack = <<>> /\ pIdx <= Len(pReq)
    /\ pStack' = <<Frame(pReq[pIdx], 0)>>
    /\ pIdx' = pIdx + 1
    /\ UNCHANGED <<pVisited, pPerms, pProcessed, pPc, permFrame>>

\* line 165: the role has been visited, return
ReturnVisited ==
    /\ pPc = "run" /\ pStack /= <<>> /\ Top.pos = 0
    /\ AlreadyVisited(Top.role, pVisited)
    /\ pStack' = Pop
    /\ UNCHANGED <<pIdx, pVisited, pPerms, pProcessed, pPc, permFrame>>

\* lines 166-169: mark the role visited; it is not in the role map, return
ReturnUnknown ==
    /\ pPc = "run" /\ pStack /= <<>> /\ Top.pos = 0
    /\ ~AlreadyVisited(Top.role, pVisited)
    /\ Top.role \notin DOMAIN roles
    /\ pVisited' = pVisited \cup {Top.role}
    /\ pProcessed' = Append(pProcessed, Top.role)
    /\ pStack' = Pop
    /\ UNCHANGED <<pIdx, pPerms, pPc, permFrame>>

\* a processRole that forgets the can entries of the role
AddPermissionsOnly ==
    /\ pPc = "run" /\ pStack /= <<>> /\ Top.pos = 0
    /\ ~AlreadyVisited(Top.role, pVisited)
    /\ Top.role \in DOMAIN roles
    /\ pVisited' = pVisited \cup {Top.role}
    /\ pProcessed' = Append(pProcessed, Top.role)
    /\ pPerms' = AddAll(pPerms, roles[Top.role].permissions)
    /\ pStack' = [pStack EXCEPT ![Len(pStack)].pos = 1]
    /\ UNCHANGED <<pIdx, pPc, permFrame>>

\* lines 166-179: mark the role visited and add its permissions and can entries
AddPermissions ==
    /\ pPc = "run" /\ pStack /= <<>> /\ Top.pos = 0
    /\ ~AlreadyVisited(Top.role, pVisited)
    /\ Top.role \in DOMAIN roles
    /\ pVisited' = pVisited \cup {Top.role}
    /\ pProcessed' = Append(pProcessed, Top.role)
    /\ pPerms' = AddAll(AddAll(pPerms, roles[Top.role].permissions), roles[Top.role].can)
    /\ pStack' = [pStack EXCEPT ![Len(pStack)].pos = 1]
    /\ UNCHANGED <<pIdx, pPc, permFrame>>

\* lines 182-184: the loop over role.inherits calls processRole(parent, visited)
CallForParent ==
    /\ pPc = "run" /\ pStack /= <<>> /\ Top.pos >= 1
    /\ Top.pos <= Len(roles[Top.role].inherits)
    /\ Len(pStack) < MaxDepth
    /\ pStack' = Append([pStack EXCEPT ![Len(pStack)].pos = @ + 1],
                        Frame(roles[Top.role].inherits[Top.pos], 0))
    /\ UNCHANGED <<pIdx, pVisited, pPerms, pProcessed, pPc, permFrame>>

\* line 185: the loop over role.inherits is over, return
ReturnDone ==
    /\ pPc = "run" /\ pStack /= <<>> /\ Top.pos >= 1
    /\ Top.pos > Len(roles[Top.role].inherits)
    /\ pStack' = Pop
    /\ UNCHANGED <<pIdx, pVisited, pPerms, pProcessed, pPc, permFrame>>

\* line 192: return Array.from(permissions)
ReturnPermissions ==
    /\ pPc = "run" /\ pStack = <<>> /\ pIdx > Len(pReq)
    /\ pPc' = "done"
    /\ UNCHANGED <<pIdx, pStack, pVisited, pPerms, pProcessed, permFrame>>

NextPerm ==
    \/ CallForRequested
    \/ ReturnVisited
    \/ ReturnUnknown
    \/ AddPermissions
    \/ CallForParent
    \/ ReturnDone
    \/ ReturnPermissions

\* the call runs on one thread and nothing suspends it: it keeps taking steps
SpecPerm == InitPerm /\ [][NextPerm]_vars /\ WF_vars(NextPerm)

NoRoleTwice ==
    \A i, j \in 1..Len(pProcessed) : i /= j => pProcessed[i] /= pProcessed[j]

\* the recursion is never deeper than the roles seen so far, plus one
DepthBounded == Len(pStack) <= Cardinality(pVisited) + 1 /\ Len(pStack) < MaxDepth

\* C8 (cycle safety): every call of getEffectivePermissions returns, for every
\* role map and role list, cyclic and self-inheriting roles included, and no
\* role passes the visited check twice within the call.
C8_CycleSafety == [](NoRoleTwice /\ DepthBounded) /\ <>(pPc = "done")

\* A inherits B, B inherits A: the call for [A] has returned with both processed once
C8_Witness ==
    /\ pPc = "done" /\ roles = CycleAB /\ pReq = <<"A">>
    /\ pProcessed = <<"A", "B">> /\ pPerms = <<"read", "write">>

\* C20 (effective permissions): the returned list holds, each once, exactly the
\* permissions and can entries of the roles of the map reachable from the
\* requested roles through inherits; names absent from the map add nothing;
\* for A inherits B, B inherits A the result for [A] is A's and B's entries.
C20_EffectiveUnion ==
    pPc = "done" =>
        /\ {pPerms[i] : i \in 1..Len(pPerms)} = GrantedBy(roles, pReq)
        /\ \A i, j \in 1..Len(pPerms) : i /= j => pPerms[i] /= pPerms[j]
        /\ (roles = CycleAB /\ pReq = <<"A">>) =>
              {pPerms[i] : i \in 1..Len(pPerms)} = {"read", "write"}

\* a request that names two roles absent from the map and a self-inheriting one
C20_Witness ==
    /\ pPc = "done" /\ roles = SelfLoop /\ pReq = <<"D", "C", "A">>
    /\ pVisited = {"A", "B", "C", "D"} /\ pPerms = <<"read", "write">>

\* the step-by-step call computes what the recursive operator computes
StepwiseAgrees == pPc = "done" => pPerms = getEffectivePermissions(roles, pReq)

(***************************************************************************)
(* SpecRate: a RateLimiter and any sequence of check, consume, reset and   *)
(* cleanup calls while the clock advances.                                 *)
(***************************************************************************)

\* the instants at which the clock is read
TimePoints == {0, 1, 59001, 60000, 60001, 60002, 120002}

Identifiers == {[userId |-> VStr("u1"), tenantId |-> VStr("t1"), ip |-> VUndefined],
                [userId |-> VUndefined, tenantId |-> VUndefined, ip |-> VUndefined]}

Keys == {getKey("user", id) : id \in Identifiers}

RateConfigs ==
    {[requestsPerMinute |-> rpm, burst |-> b] :
        rpm \in {0, 2}, b \in {VUndefined, VNum(1, 0)}}

\* Date.now() read a second time within one call: the same millisecond or the next
LaterReading == {now} \cup ({now + 1} \cap TimePoints)

InitRate ==
    /\ rlConfig \in RateConfigs
    /\ store = <<>> /\ now = 0 /\ rResult = [op |-> "none"]
    /\ winEnd = [k \in Keys |-> 0] /\ winCalls = [k \in Keys |-> 0]
    /\ uncleaned = <<>>
    /\ CondIdle /\ EngineIdle /\ PermIdle /\ ConcIdle /\ FdIdle

\* a returned RateLimitResult with the call it answers; at is the reading of
\* Date.now() the result was computed from (line 29)
Called(op, key, result, at) ==
    [op |-> op, key |-> key, at |-> at, allowed |-> result.allowed,
     remaining |-> result.remaining, resetAt |-> result.resetAt,
     retryAfter |-> result.retryAfter]

\* the window as the callers of consume see it: live from the call that opened
\* it to its reset time, that instant included
WindowLive(key) == winCalls[key] > 0 /\ now <= winEnd[key]

\* time passes between two calls
Tick(points) ==
    /\ \E t \in points : t > now /\ now' = t
    /\ UNCHANGED <<rlConfig, store, rResult, winEnd, winCalls, uncleaned,
                   condVars, engineVars, permVars, concVars, fdVars>>

\* a check that keeps the window it computed
CheckStoring(key) ==
    /\ rResult' = Called("check", key, check(store, rlConfig, now, key), now)
    /\ store' = IF EntryExpired(store, key, now)
                THEN MapSet(store, key, [count |-> 0, resetAt |-> now + windowMs])
                ELSE store
    /\ UNCHANGED <<rlConfig, now, winEnd, winCalls, uncleaned,
                   condVars, engineVars, permVars, concVars, fdVars>>

Check(key) ==
    /\ rResult' = Called("check", key, check(store, rlConfig, now, key), now)
    /\ UNCHANGED <<rlConfig, store, now, winEnd, winCalls, uncleaned,
                   condVars, engineVars, permVars, concVars, fdVars>>

Consume(key) ==
    \E t \in LaterReading :
        LET result == check(store, rlConfig, now, key)
            opens  == result.allowed /\ ~(WindowLive(key) /\ t <= winEnd[key])
        IN /\ now' = t
           /\ store' = Consumed(store, result, t, key)
           /\ uncleaned' = Consumed(uncleaned, check(uncleaned, rlConfig, now, key), t, key)
           /\ rResult' = Called("consume", key, result, now)
           /\ winEnd' = IF opens THEN [winEnd EXCEPT ![key] = t + windowMs] ELSE winEnd
           /\ winCalls' = IF opens THEN [winCalls EXCEPT ![key] = 1]
                          ELSE IF WindowLive(key) /\ winCalls[key] <= maxRequests(rlConfig)
                          THEN [winCalls EXCEPT ![key] = @ + 1]
                          ELSE winCalls
           /\ UNCHANGED <<rlConfig, condVars, engineVars, permVars, concVars, fdVars>>

Reset(key) ==
    /\ store' = MapDelete(store, key)
    /\ uncleaned' = MapDelete(uncleaned, key)
    /\ rResult' = [op |-> "reset"]
    /\ winCalls' = [winCalls EXCEPT ![key] = 0]
    /\ UNCHANGED <<rlConfig, now, winEnd, condVars, engineVars, permVars, concVars, fdVars>>

Cleanup ==
    /\ store' = CleanedUp(store, now)
    /\ rResult' = [op |-> "cleanup"]
    /\ UNCHANGED <<rlConfig, now, winEnd, winCalls, uncleaned,
                   condVars, engineVars, permVars, concVars, fdVars>>

NextRate ==
    \/ Tick(TimePoints)
    \/ \E key \in Keys : Check(key)
    \/ \E key \in Keys : Consume(key)
    \/ \E key \in Keys : Reset(key)
    \/ Cleanup

SpecRate == InitRate /\ [][NextRate]_vars

\* C9 (windowing): with quota Q = requestsPerMinute + burst, a consume call on a
\* key without a live window is allowed (when Q >= 1) and leaves the entry
\* [count 1, reset 60 000 ms after the call]; in a live window the calls are
\* allowed until Q of them have been made and denied from then on.
C9_Windowing ==
    [][\A key \in Keys :
          Consume(key) =>
            /\ rResult'.allowed = IF WindowLive(key)
                                  THEN winCalls[key] < maxRequests(rlConfig)
                                  ELSE maxRequests(rlConfig) >= 1
            /\ (~WindowLive(key) /\ maxRequests(rlConfig) >= 1)
                  => store'[key] = [count |-> 1, resetAt |-> now' + windowMs]]_vars

\* requestsPerMinute = 2, burst absent: the third consume of the window is denied
C9_Witness ==
    /\ rlConfig = [requestsPerMinute |-> 2, burst |-> VUndefined]
    /\ rResult.op = "consume" /\ rResult.allowed = FALSE
    /\ winCalls[rResult.key] = 3 /\ store[rResult.key].count = 2
    /\ now <= store[rResult.key].resetAt

\* C11 (retryAfter bound): every denied result of check or consume carries
\* retryAfter = the ceiling, in whole seconds, of the time from the call to the
\* window's reset, and 0 < retryAfter <= 60.
C11_RetryAfterBound ==
    (rResult.op \in {"check", "consume"} /\ ~rResult.allowed) =>
        /\ rResult.retryAfter = VNum(CeilSeconds(rResult.resetAt - rResult.at), 0)
        /\ 0 < rResult.retryAfter.n
        /\ rResult.retryAfter.n <= 60

\* the part of C11 the code keeps: the ceiling, between 0 and 60 seconds
RetryAfterIsCeiling ==
    (rResult.op \in {"check", "consume"} /\ ~rResult.allowed) =>
        /\ rResult.retryAfter = VNum(CeilSeconds(rResult.resetAt - rResult.at), 0)
        /\ 0 <= rResult.retryAfter.n
        /\ rResult.retryAfter.n <= 60

\* C12 (check is a read-only peek): a check call leaves the store as it was, so
\* every check and every consume made after it returns, and stores, what it
\* would have without the check call.
C12_CheckReadOnly ==
    [][(\E key \in Keys : Check(key)) =>
          /\ store' = store
          /\ \A k \in Keys :
                /\ check(store', rlConfig', now', k) = check(store, rlConfig, now, k)
                /\ \A t \in LaterReading :
                      Consumed(store', check(store', rlConfig', now', k), t, k)
                        = Consumed(store, check(store, rlConfig, now, k), t, k)]_vars

\* a check was answered "allowed" for a key that has no entry, or whose window
\* has expired: the call computed a fresh window and did not keep it
C12_Witness ==
    /\ rResult.op = "check" /\ rResult.allowed
    /\ now = rResult.at
    /\ EntryExpired(store, rResult.key, now)
    /\ \E k \in DOMAIN store : store[k].count > 0

\* the entries of st whose window has not expired at t
LiveEntries(st, t) == {k \in DOMAIN st : t <= st[k].resetAt}

\* the instants at which a later call can read the clock
LaterPoints == {t \in TimePoints \cup {now} : t >= now}

\* C29 (cleanup is exact and transparent): a cleanup call deletes exactly the
\* entries whose window has expired and leaves the count and the reset time
\* of every live entry as they were; and at every point of every sequence of
\* calls, a check or consume on any key returns what it returns when no
\* cleanup call was ever made.
C29_CleanupTransparent ==
    /\ [][Cleanup =>
            /\ DOMAIN store' = LiveEntries(store, now)
            /\ \A k \in DOMAIN store' : store'[k] = store[k]]_vars
    /\ [](\A k \in Keys : \A t \in LaterPoints :
            check(store, rlConfig, t, k) = check(uncleaned, rlConfig, t, k))

\* a cleanup call has deleted an expired entry that held calls, while the
\* live entry of another key stayed
C29_Witness ==
    /\ rResult.op = "cleanup"
    /\ \E k \in DOMAIN uncleaned \ DOMAIN store : uncleaned[k].count > 0
    /\ \E k \in DOMAIN store : store[k].count > 0 /\ now <= store[k].resetAt

\* a consume was answered for a key whose expired entry a cleanup had deleted
ConsumedAfterCleanup ==
    /\ rResult.op = "consume" /\ rResult.allowed
    /\ rResult.key \in DOMAIN uncleaned
    /\ \E k \in DOMAIN uncleaned \ DOMAIN store : k /= rResult.key

(***************************************************************************)
(* SpecConc: callers whose consume calls are in flight at the same time.   *)
(* Each call is a task of the single-threaded event loop: consume has no   *)
(* await, so a task runs the whole of it before another task starts.       *)
(***************************************************************************)

NumCallers == 2

Callers == 1..NumCallers

ConcConfigs == {[requestsPerMinute |-> 1, burst |-> VUndefined],
                [requestsPerMinute |-> 1, burst |-> VNum(1, 0)]}

\* the instants between which the callers' clock advances
ConcTimePoints == {0, 60001}

NotReturned == RateLimitResult(FALSE, 0, 0, VUndefined)

InitConc ==
    /\ rlConfig \in ConcConfigs
    /\ store = <<>> /\ now = 0
    /\ callerPc = [p \in Callers |-> "idle"]
    /\ callerKey = [p \in Callers |-> ""]
    /\ callerRes = [p \in Callers |-> NotReturned]
    /\ granted = <<>>
    /\ rResult = [op |-> "none"] /\ winEnd = <<>> /\ winCalls = <<>> /\ uncleaned = <<>>
    /\ CondIdle /\ EngineIdle /\ PermIdle /\ FdIdle

concFrame == <<rlConfig, rResult, winEnd, winCalls, uncleaned, condVars, engineVars, permVars, fdVars>>

\* one more allowed call in the window that ends at resetAt
Granted(g, window) ==
    [w \in DOMAIN g \cup {window} |->
        IF w = window THEN (IF w \in DOMAIN g THEN g[w] + 1 ELSE 1) ELSE g[w]]

\* a request arrives and its consume call is queued
Invoke(p, key) ==
    /\ callerPc[p] = "idle"
    /\ callerPc' = [callerPc EXCEPT ![p] = "pending"]
    /\ callerKey' = [callerKey EXCEPT ![p] = key]
    /\ UNCHANGED <<store, now, callerRes, granted, concFrame>>

\* a consume whose check and update are separate tasks
ConsumeInterleaved(p) ==
    \/ /\ callerPc[p] = "pending"
       /\ callerRes' = [callerRes EXCEPT ![p] = check(store, rlConfig, now, callerKey[p])]
       /\ callerPc' = [callerPc EXCEPT ![p] = "checked"]
       /\ UNCHANGED <<store, now, callerKey, granted, concFrame>>
    \/ /\ callerPc[p] = "checked"
       /\ \E t \in LaterReading :
             /\ now' = t
             /\ store' = Consumed(store, callerRes[p], t, callerKey[p])
             /\ granted' = IF callerRes[p].allowed
                           THEN Granted(granted, <<callerKey[p], store'[callerKey[p]].resetAt>>)
                           ELSE granted
       /\ callerPc' = [callerPc EXCEPT ![p] = "returned"]
       /\ UNCHANGED <<callerKey, callerRes, concFrame>>

\* consume(key), lines 62-82, run to completion
ConsumeCall(p) ==
    /\ callerPc[p] = "pending"
    /\ \E t \in LaterReading :
          LET result == check(store, rlConfig, now, callerKey[p])
          IN /\ now' = t
             /\ store' = Consumed(store, result, t, callerKey[p])
             /\ callerRes' = [callerRes EXCEPT ![p] = result]
             /\ granted' = IF result.allowed
                           THEN Granted(granted, <<callerKey[p], store'[callerKey[p]].resetAt>>)
                           ELSE granted
    /\ callerPc' = [callerPc EXCEPT ![p] = "returned"]
    /\ UNCHANGED <<callerKey, concFrame>>

\* the caller has the result and is ready for its next request
Resume(p) ==
    /\ callerPc[p] = "returned"
    /\ callerPc' = [callerPc EXCEPT ![p] = "idle"]
    /\ callerRes' = [callerRes EXCEPT ![p] = NotReturned]
    /\ UNCHANGED <<store, now, callerKey, granted, concFrame>>

NextConc ==
    \/ \E p \in Callers, key \in Keys : Invoke(p, key)
    \/ \E p \in Callers : ConsumeCall(p)
    \/ \E p \in Callers : Resume(p)
    \/ Tick(ConcTimePoints)

SpecConc == InitConc /\ [][NextConc]_vars

\* C10 (no lost update): however the consume calls of several callers on one
\* key interleave, the calls allowed within one window never outnumber
\* requestsPerMinute + burst.
C10_NoLostUpdate ==
    /\ \A w \in DOMAIN granted : granted[w] <= maxRequests(rlConfig)
    /\ \A key \in DOMAIN store : store[key].count <= maxRequests(rlConfig)

\* two calls on one key were in flight for the last unit of quota: one got it
C10_Witness ==
    /\ callerPc[1] = "returned" /\ callerPc[2] = "returned"
    /\ callerKey[1] = callerKey[2]
    /\ callerRes[1].allowed /= callerRes[2].allowed
    /\ callerRes[1].resetAt = callerRes[2].resetAt
    /\ store[callerKey[1]].count = maxRequests(rlConfig)

(***************************************************************************)
(* Inputs of the fd tool: specs as the YAML loader hands them to link and  *)
(* validate.  All eight sections are present (types/spec.ts, Spec).        *)
(***************************************************************************)
Field(name, type, reference) == [name |-> name, type |-> type, reference |-> reference]

Ref(entity, field) == <<[entity |-> entity, field |-> field]>>

Relation(name, target, through) == <<[name |-> name, target |-> target, through |-> through]>>

Entity(name, description, immutable, fields, relations) ==
    [name |-> name, description |-> description, tenant_scoped |-> "",
     immutable |-> immutable, ai_suggest_only |-> "", fields |-> fields,
     relations |-> relations]

Customer ==
    Entity("Customer", "A customer", "",
           <<Field("id", "uuid", <<>>), Field("email", "string", <<>>)>>, <<>>)

Order(reference, relations) ==
    Entity("Order", "", "",
           <<Field("id", "uuid", <<>>), Field("customer_id", "uuid", reference)>>, relations)

\* the reference of Order.customer_id: none, to fields that exist, to a field
\* and to an entity that do not, and to a name every object inherits
References ==
    {<<>>, Ref("Customer", ""), Ref("Customer", "email"), Ref("Customer", "code"),
     Ref("Ghost", ""), Ref("toString", "")}

Relations ==
    {<<>>, Relation("customer", "Customer", ""), Relation("customer", "Ghost", ""),
     Relation("customer", "Customer", "Ghost"), Relation("customer", "constructor", "")}

JournalEntry(immutable) ==
    Entity("JournalEntry", "A posted entry", immutable,
           <<Field("id", "uuid", <<>>), Field("posted_at", "datetime", <<>>)>>, <<>>)

JournalLine(amounts) ==
    Entity("JournalLine", "", "",
           <<Field("id", "uuid", <<>>), Field("entry_id", "uuid", Ref("JournalEntry", ""))>>
           \o amounts, <<>>)

Amounts ==
    {<<>>, <<Field("debit", "decimal", <<>>)>>,
     <<Field("debit", "decimal", <<>>), Field("credit", "decimal", <<>>)>>,
     <<Field("debit_amount", "decimal", <<>>), Field("credit_amount", "decimal", <<>>)>>}

Flags == {"", "true", "false"}

EntityLists ==
    {<<Customer, Order(reference, relations)>> : reference \in References, relations \in Relations}
    \cup {<<JournalEntry(immutable), JournalLine(amounts)>> : immutable \in Flags, amounts \in Amounts}
    \cup {<<JournalEntry(immutable)>> : immutable \in Flags}

Action(name, type, entity, idempotent, allowed, triggers_job) ==
    [name |-> name, type |-> type, description |-> "", entity |-> entity,
     idempotent |-> idempotent, roles |-> allowed, rate_limit |-> "",
     triggers_job |-> triggers_job]

\* the sections other than product and entities: empty ones
RestEmpty ==
    [actions |-> <<>>, flows |-> <<>>,
     policies |-> [roles |-> <<>>, policies |-> <<>>, ai_entities |-> <<>>, ai_actions |-> <<>>],
     ui |-> [screens |-> <<>>], jobs |-> [jobs |-> <<>>, queues |-> <<>>]]

\* sections whose references resolve when the entities are Customer and Order
RestShop ==
    [actions |-> <<Action("list_orders", "query", "Order", "", <<"viewer">>, ""),
                   Action("create_order", "command", "Order", "true", <<"viewer">>, "notify")>>,
     flows |-> <<[name |-> "checkout", initial_step |-> "cart",
                  steps |-> <<[name |-> "cart", screen |-> "orders", on_enter |-> "list_orders",
                               transitions |-> <<[name |-> "next", target |-> "cart",
                                                  action |-> "create_order"]>>]>>]>>,
     policies |-> [roles |-> <<[name |-> "viewer", inherits |-> <<>>,
                                can |-> <<"list_orders">>]>>,
                   policies |-> <<[name |-> "own_orders", resource |-> "Order"]>>,
                   ai_entities |-> <<[name |-> "Order"]>>, ai_actions |-> <<>>],
     ui |-> [screens |-> <<[name |-> "orders", entity |-> "Order",
                            load_action |-> "list_orders", submit_action |-> ""]>>],
     jobs |-> [jobs |-> <<[name |-> "notify", queue |-> "default",
                           triggers |-> <<"list_orders">>, dead_letter_queue |-> ""]>>,
               queues |-> <<>>]]

\* sections that each hold a reference to something that does not exist
RestDangling ==
    [actions |-> <<Action("pay", "command", "Invoice", "false", <<"admin">>, "settle")>>,
     flows |-> <<[name |-> "billing", initial_step |-> "start",
                  steps |-> <<[name |-> "review", screen |-> "invoice", on_enter |-> "load",
                               transitions |-> <<[name |-> "next", target |-> "done",
                                                  action |-> "approve"]>>]>>]>>,
     policies |-> [roles |-> <<[name |-> "clerk", inherits |-> <<"staff">>,
                                can |-> <<"refund">>]>>,
                   policies |-> <<[name |-> "own_invoices", resource |-> "Invoice"]>>,
                   ai_entities |-> <<[name |-> "Invoice"]>>,
                   ai_actions |-> <<[name |-> "refund"]>>],
     ui |-> [screens |-> <<[name |-> "payments", entity |-> "Invoice",
                            load_action |-> "load", submit_action |-> "submit"]>>],
     jobs |-> [jobs |-> <<[name |-> "sweep", queue |-> "slow",
                           triggers |-> <<"purge">>, dead_letter_queue |-> "dead"]>>,
               queues |-> <<[name |-> "fast"]>>]]

Rests == {RestEmpty, RestShop, RestDangling}

\* a job whose queue and dead letter queue are both the literal 'default'
RestDeadLetter ==
    [RestEmpty EXCEPT !.jobs =
        [jobs |-> <<[name |-> "retry", queue |-> "default", triggers |-> <<>>,
                     dead_letter_queue |-> "default"]>>,
         queues |-> <<>>]]

\* the tenant_isolation policy of docs/psl.md: its resource is the wildcard
RestWildcard ==
    [RestEmpty EXCEPT !.policies.policies =
        <<[name |-> "tenant_isolation", resource |-> "*"]>>]

LinkRests == Rests \cup {RestDeadLetter, RestWildcard}

Profiles == {"dev", "prod"}

MakeSpec(profile, entities, rest) ==
    [product |-> [version |-> "1.0.0", profile |-> profile, profiles |-> <<>>,
                  tenancy_mode |-> "multi"],
     entities |-> entities, actions |-> rest.actions, flows |-> rest.flows,
     policies |-> rest.policies, ui |-> rest.ui, jobs |-> rest.jobs]

LinkSpecs ==
    {MakeSpec(profile, entities, rest) :
        profile \in Profiles, entities \in EntityLists, rest \in LinkRests}

Reverse(seq) == [i \in 1..Len(seq) |-> seq[Len(seq) + 1 - i]]

\* objects deeply equal to spec whose keys were inserted in another order: the
\* entities the other way round, or the fields of each entity
Reorderings(spec) ==
    {[spec EXCEPT !.entities = Reverse(@)],
     [spec EXCEPT !.entities = [i \in 1..Len(@) |-> [@[i] EXCEPT !.fields = Reverse(@)]]]}

\* the names of a map, whatever the insertion order
Names(map) == {map[i].name : i \in 1..Len(map)}

(***************************************************************************)
(* SpecLink: a spec is loaded; link is called on it any number of times    *)
(* while the clock advances, and on deeply equal specs built in another    *)
(* key order.  lResult is the result of the last call on fSpec, lHashes    *)
(* the _meta.hash of every bundle produced so far.                         *)
(***************************************************************************)
MaxTicks == 1

InitLink ==
    /\ CondIdle /\ EngineIdle /\ PermIdle /\ RateIdle /\ ConcIdle
    /\ fSpec \in LinkSpecs
    /\ fClock = 0
    /\ lResult = [op |-> "none"]
    /\ lHashes = {}
    /\ vOptions = <<>> /\ vSchema = <<>> /\ vResult = [op |-> "none"]

NewHashes(result) ==
    IF result.op = "link" /\ result.valid THEN {result.bundle[1].meta.hash} ELSE {}

Link ==
    /\ lResult' = link(fSpec, fClock)
    /\ lHashes' = lHashes \cup NewHashes(link(fSpec, fClock))
    /\ UNCHANGED <<condVars, engineVars, permVars, rateVars, concVars,
                   fSpec, fClock, vOptions, vSchema, vResult>>

Reorder ==
    /\ \E spec \in Reorderings(fSpec) : spec /= fSpec /\ fSpec' = spec
    /\ lResult' = [op |-> "none"]
    /\ UNCHANGED <<condVars, engineVars, permVars, rateVars, concVars,
                   fClock, lHashes, vOptions, vSchema, vResult>>

ClockTick ==
    /\ fClock < MaxTicks
    /\ fClock' = fClock + 1
    /\ UNCHANGED <<condVars, engineVars, permVars, rateVars, concVars,
                   fSpec, lResult, lHashes, vOptions, vSchema, vResult>>

NextLink ==
    \/ Link
    \/ Reorder
    \/ ClockTick

SpecLink == InitLink /\ [][NextLink]_vars

(***************************************************************************)
(* Claims about SpecLinker.link, checked under SpecLink.                   *)
(***************************************************************************)

\* C13: the bundle hash depends only on the content of the spec: all the
\* specs of one behaviour are deeply equal (the same spec linked again at a
\* later time, or rebuilt with its keys inserted in another order), so every
\* bundle produced carries the same _meta.hash.
C13_HashContentOnly == Cardinality(lHashes) <= 1

\* the part of C13 that the code keeps: the hash of a bundle is that of the
\* spec linked, whatever the time of the call
HashIgnoresTime ==
    (lResult.op = "link" /\ lResult.valid)
        => lResult.bundle[1].meta.hash = computeHash(fSpec)

ErrorTypes == {"missing_reference", "invariant_violation"}

\* C14: a call of link that returns has valid = TRUE and a bundle exactly
\* when its errors list is empty, and valid = FALSE and no bundle when there
\* is at least one error (each a missing_reference or an
\* invariant_violation); the warnings have no part in it.
C14_ValidIffNoErrors ==
    lResult.op = "link" =>
        /\ lResult.valid = (Len(lResult.errors) = 0)
        /\ lResult.valid = (Len(lResult.bundle) = 1)
        /\ Len(lResult.errors) > 0 => lResult.bundle = <<>>
        /\ \A i \in 1..Len(lResult.errors) : lResult.errors[i].type \in ErrorTypes
        /\ lResult.errors = LinkErrors(fSpec)
        /\ lResult.warnings = checkUnused(fSpec)

\* a call that returned warnings and no error: the bundle is there
C14_Witness ==
    /\ lResult.op = "link"
    /\ Len(lResult.warnings) > 0
    /\ lResult.valid
    /\ Len(lResult.bundle) = 1

\* the entities that entity names in a field reference, a relation target or
\* a relation through
Referenced(entity) == EntityUses(entity)

\* link reported that the entity named from references the absent entity to
Reported(result, from, to) ==
    \E i \in 1..Len(result.errors) :
        /\ result.errors[i].type = "missing_reference"
        /\ StartsWith(result.errors[i].source, "entities." \o from)
        /\ result.errors[i].target = "entities." \o to

\* C15: after a call of link, for every entity E that references an entity X
\* the spec does not contain, the call returned with a missing_reference
\* error whose source starts with entities.E and whose target is entities.X,
\* and with no bundle.
C15_ReferenceIntegrity ==
    lResult.op /= "none" =>
        \A i \in 1..Len(fSpec.entities) :
            \A to \in Referenced(fSpec.entities[i]) \ Names(fSpec.entities) :
                /\ lResult.op = "link"
                /\ Reported(lResult, fSpec.entities[i].name, to)
                /\ lResult.bundle = <<>>

\* the part of C15 that the code keeps: references to absent entities whose
\* name no object inherits are reported
OrdinaryReferenceIntegrity ==
    lResult.op = "link" =>
        \A i \in 1..Len(fSpec.entities) :
            \A to \in (Referenced(fSpec.entities[i]) \ Names(fSpec.entities)) \ ProtoKeys :
                /\ Reported(lResult, fSpec.entities[i].name, to)
                /\ lResult.bundle = <<>>

HasEntity(spec, name) == OwnEntry(spec.entities, name)

FieldNames(spec, name) == Names(EntryOf(spec.entities, name).fields)

\* the case of C16: a JournalEntry that is not immutable, a JournalLine with
\* neither a debit nor a credit field, profile prod
UnbalancedLedger(spec) ==
    /\ HasEntity(spec, "JournalEntry") /\ HasEntity(spec, "JournalLine")
    /\ EntryOf(spec.entities, "JournalEntry").immutable /= "true"
    /\ FieldNames(spec, "JournalLine")
         \cap {"debit", "debit_amount", "credit", "credit_amount"} = {}
    /\ spec.product.profile = "prod"

Violations(result) ==
    {i \in 1..Len(result.errors) : result.errors[i].type = "invariant_violation"}

\* C16: link of a spec with a JournalEntry that is not immutable and a
\* JournalLine without debit and credit fields, under profile prod, returns
\* at least two invariant_violation errors and no bundle.
C16_JournalInvariant ==
    (lResult.op /= "none" /\ UnbalancedLedger(fSpec)) =>
        /\ lResult.op = "link"
        /\ Cardinality(Violations(lResult)) >= 2
        /\ ~lResult.valid
        /\ lResult.bundle = <<>>

C16_Witness ==
    /\ lResult.op = "link"
    /\ UnbalancedLedger(fSpec)
    /\ fSpec.actions = <<>>
    /\ Cardinality(Violations(lResult)) = 2
    /\ Len(lResult.errors) = 2

\* spec has a journal entry entity that is not flagged immutable
OpenJournalEntry(spec) ==
    \E i \in 1..Len(spec.entities) :
        /\ spec.entities[i].name \in {"JournalEntry", "journal_entry"}
        /\ spec.entities[i].immutable /= "true"

\* C26: link of a spec with a journal entry entity that is not immutable,
\* under profile prod, returns an invariant_violation error and no bundle,
\* with or without a JournalLine entity.
C26_LedgerImmutable ==
    (lResult.op /= "none" /\ OpenJournalEntry(fSpec) /\ fSpec.product.profile = "prod") =>
        /\ lResult.op = "link"
        /\ Violations(lResult) /= {}
        /\ lResult.bundle = <<>>

\* the part of C26 that the code keeps: the rule when a line entity exists
LedgerImmutableWithLines ==
    (/\ lResult.op /= "none" /\ OpenJournalEntry(fSpec) /\ fSpec.product.profile = "prod"
     /\ HasEntity(fSpec, "JournalLine")) =>
        /\ lResult.op = "link"
        /\ Violations(lResult) /= {}
        /\ lResult.bundle = <<>>

\* link reported that job names a queue that does not exist
QueueReported(result, job, queue) ==
    \E i \in 1..Len(result.errors) :
        /\ result.errors[i].type = "missing_reference"
        /\ result.errors[i].source = "jobs." \o job
        /\ result.errors[i].target = "jobs.queues." \o queue

\* the queue and the dead letter queue that a job names
QueuesNamed(job) == {job.queue, job.dead_letter_queue} \ {""}

\* C27: after a call of link that returned, a job's queue or dead letter
\* queue that is 'default' has produced no error, and any other one that is
\* not a key of jobs.queues has produced a missing_reference error.
C27_QueueReferences ==
    lResult.op = "link" =>
        \A i \in 1..Len(fSpec.jobs.jobs) :
            \A queue \in QueuesNamed(fSpec.jobs.jobs[i]) :
                IF queue = "default"
                THEN ~QueueReported(lResult, fSpec.jobs.jobs[i].name, queue)
                ELSE queue \notin Names(fSpec.jobs.queues)
                        => QueueReported(lResult, fSpec.jobs.jobs[i].name, queue)

\* the part of C27 that the code keeps: the rule for job.queue, and the
\* errors for the other names
QueueRuleKept ==
    lResult.op = "link" =>
        \A i \in 1..Len(fSpec.jobs.jobs) :
            /\ fSpec.jobs.jobs[i].queue = "default"
                 /\ fSpec.jobs.jobs[i].dead_letter_queue /= "default"
                 => ~QueueReported(lResult, fSpec.jobs.jobs[i].name, "default")
            /\ \A queue \in QueuesNamed(fSpec.jobs.jobs[i]) \ {"default"} :
                 queue \notin Names(fSpec.jobs.queues)
                    => QueueReported(lResult, fSpec.jobs.jobs[i].name, queue)

\* C28: after a call of link that returned, no error names a policy whose
\* resource is the wildcard '*', the resource that PolicyEngine.evaluate
\* takes as applicable to every resource.
C28_WildcardAccepted ==
    lResult.op = "link" =>
        \A i \in 1..Len(fSpec.policies.policies) :
            fSpec.policies.policies[i].resource = "*" =>
                ~\E k \in 1..Len(lResult.errors) :
                    lResult.errors[k].source
                        = "policies.policies." \o fSpec.policies.policies[i].name

(***************************************************************************)
(* SpecValidate: a spec is loaded, the schema errors it has are fixed, and *)
(* validate is called on it with any options, any number of times.         *)
(* vOptions and vResult are the options and the result of the last call.   *)
(***************************************************************************)
ProfileBlock(name, require_idempotency) ==
    [name |-> name, require_idempotency |-> require_idempotency,
     require_rate_limits |-> "", strict_tenancy |-> ""]

\* product.profiles: absent, or blocks for dev, for prod, or for both
ProfileBlocks ==
    {<<>>, <<ProfileBlock("dev", "")>>, <<ProfileBlock("dev", "false")>>,
     <<ProfileBlock("prod", "")>>, <<ProfileBlock("prod", "false")>>,
     <<ProfileBlock("dev", "false"), ProfileBlock("prod", "true")>>}

\* commands that are idempotent, that are not, and that do not say, and a query
RestCommands ==
    [RestEmpty EXCEPT !.actions =
        <<Action("post", "command", "", "", <<>>, ""),
          Action("void", "command", "", "false", <<>>, ""),
          Action("close", "command", "", "true", <<>>, ""),
          Action("balance", "query", "", "", <<>>, "")>>]

ValidateEntities ==
    {<<Customer, Order(<<>>, <<>>)>>, <<JournalEntry("true"), JournalLine(<<>>)>>,
     <<[Customer EXCEPT !.tenant_scoped = "false"]>>}

ValidateSpecs ==
    {[MakeSpec(profile, entities, rest) EXCEPT !.product.profiles = blocks] :
        profile \in Profiles, entities \in ValidateEntities,
        rest \in Rests \cup {RestCommands}, blocks \in ProfileBlocks}

SchemaErrorLists == {<<>>, <<Finding("name", "must have required property 'name'")>>}

ValidateOptions == {[strict |-> strict, profile |-> profile] :
                      strict \in Flags, profile \in {""} \cup Profiles}

InitValidate ==
    /\ CondIdle /\ EngineIdle /\ PermIdle /\ RateIdle /\ ConcIdle
    /\ fSpec \in ValidateSpecs
    /\ vSchema \in SchemaErrorLists
    /\ vOptions = <<>>
    /\ vResult = [op |-> "none"]
    /\ fClock = 0 /\ lResult = [op |-> "none"] /\ lHashes = {}

Validate ==
    /\ \E options \in ValidateOptions :
        /\ vOptions' = options
        /\ vResult' = validate(fSpec, options, vSchema)
    /\ UNCHANGED <<condVars, engineVars, permVars, rateVars, concVars,
                   fSpec, fClock, lResult, lHashes, vSchema>>

NextValidate == Validate

SpecValidate == InitValidate /\ [][NextValidate]_vars

(***************************************************************************)
(* Claims about SpecValidator.validate, checked under SpecValidate.        *)
(***************************************************************************)

\* C17: validate returns valid = TRUE exactly when its errors list is empty,
\* whatever the warnings; and for the same spec and profile the call with
\* strict on and the call with strict off return the same errors and the
\* same valid flag.
C17_ValidatorSeverity ==
    vResult.op = "validate" =>
        /\ vResult.valid = (Len(vResult.errors) = 0)
        /\ \A strict \in Flags :
            /\ validate(fSpec, [vOptions EXCEPT !.strict = strict], vSchema).errors
                 = vResult.errors
            /\ validate(fSpec, [vOptions EXCEPT !.strict = strict], vSchema).valid
                 = vResult.valid

\* a strict call that found strict warnings and is valid
C17_Witness ==
    /\ vResult.op = "validate"
    /\ vOptions.strict = "true"
    /\ vResult.valid
    /\ Len(vResult.warnings)
         > Len(validate(fSpec, [vOptions EXCEPT !.strict = "false"], vSchema).warnings)

\* the commands of spec that are not idempotent
Offenders(spec) ==
    {spec.actions[i].name :
        i \in {j \in 1..Len(spec.actions) :
                 spec.actions[j].type = "command" /\ spec.actions[j].idempotent /= "true"}}

IdempotencyReports(result) ==
    {i \in 1..Len(result.errors) : result.errors[i].message = NotIdempotent}

\* the production rules apply: the effective profile is prod, or has a block
RulesApply(spec, options) ==
    \/ EffectiveProfile(spec, options) = "prod"
    \/ EffectiveProfile(spec, options) \in Names(spec.product.profiles)

\* the block of the effective profile sets require_idempotency to false
Relaxed(spec, options) ==
    \E i \in 1..Len(spec.product.profiles) :
        /\ spec.product.profiles[i].name = EffectiveProfile(spec, options)
        /\ spec.product.profiles[i].require_idempotency = "false"

\* C19: when the production rules apply and the profile's block does not set
\* require_idempotency to false, validate reports exactly one error for each
\* command that is not idempotent, and is then not valid; when the block
\* relaxes the rule, or the rules do not apply, it reports no such error.
C19_IdempotencyRule ==
    vResult.op = "validate" =>
        IF RulesApply(fSpec, vOptions) /\ ~Relaxed(fSpec, vOptions)
        THEN /\ \A name \in Offenders(fSpec) :
                  Cardinality({i \in IdempotencyReports(vResult) :
                                 vResult.errors[i].path = "actions." \o name}) = 1
             /\ Cardinality(IdempotencyReports(vResult)) = Cardinality(Offenders(fSpec))
             /\ Offenders(fSpec) /= {} => ~vResult.valid
        ELSE IdempotencyReports(vResult) = {}

\* the rule applied to a dev profile that has a block: two commands reported
C19_Witness ==
    /\ vResult.op = "validate"
    /\ EffectiveProfile(fSpec, vOptions) = "dev"
    /\ RulesApply(fSpec, vOptions) /\ ~Relaxed(fSpec, vOptions)
    /\ Cardinality(Offenders(fSpec)) = 2
    /\ Cardinality(IdempotencyReports(vResult)) = 2

\* a relaxed prod profile reports nothing although commands are not idempotent
RelaxedReached ==
    /\ vResult.op = "validate"
    /\ EffectiveProfile(fSpec, vOptions) = "prod"
    /\ Relaxed(fSpec, vOptions)
    /\ Offenders(fSpec) /= {}

====
